---- MODULE Spec2Model ----
(***************************************************************************)
(* taxbencher command-line scripts: the taxpasta -> Bioboxes converter     *)
(* (bin/taxpasta_to_bioboxes.py), the validators                           *)
(* (bin/validate_bioboxes.py, bin/validate_taxpasta.py,                    *)
(* bin/validate_profiler_format.py), the gold-standard fixer               *)
(* (bin/fix_gold_standard.py) and the comparative analysis                 *)
(* (bin/comparative_analysis.py).                                          *)
(*                                                                         *)
(* Text is modelled by what the code does with it.  A tab-separated field  *)
(* is the sequence of its '|'-separated parts; a part is a record          *)
(*   [k, n, w]  with k = "int"   an integer literal of value n,            *)
(*                   k = "dec"   a decimal literal, n its value in 1e-6,   *)
(*                   k = "nan"   the literal "nan",                        *)
(*                   k = "text"  any other non-empty text, spelled w,      *)
(*                   k = "empty" the empty string,                         *)
(*                   k = "na"    a missing cell of the input table.        *)
(* Percentages are exact multiples of 1e-6 (the six decimals the converter *)
(* writes); a Python float carries them with a relative error of 1e-16,    *)
(* which is below the resolution of the comparisons modelled here, except  *)
(* where a sum lies exactly on a tolerance (see SumMayRoundOff).           *)
(***************************************************************************)
EXTENDS Integers, Sequences, FiniteSets, TLC

VARIABLES input, env, outfile, result, tpResult, strict, convExit, valExit, tpExit, logged, results, ca, gs, pv, pc

vars == <<input, env, outfile, result, tpResult, strict, convExit, valExit, tpExit, logged, results, ca, gs, pv, pc>>

(***************************************************************************)
(* Bounds of the model.                                                    *)
(***************************************************************************)
MaxRows == 2            \* rows of an input table
MaxDataLines == 2       \* data lines of a hand-made Bioboxes file
BigCount == 250000000   \* a read count large enough to push a share below 5e-7 %

(***************************************************************************)
(* Parts and fields.                                                       *)
(***************************************************************************)
IntP(n) == [k |-> "int", n |-> n, w |-> ""]
DecP(n) == [k |-> "dec", n |-> n, w |-> ""]
TextP(s) == [k |-> "text", n |-> 0, w |-> s]
EmptyP == [k |-> "empty", n |-> 0, w |-> ""]
NanP == [k |-> "nan", n |-> 0, w |-> ""]
NaP == [k |-> "na", n |-> 0, w |-> ""]

\* f"...:.6f" writes six decimals: one unit of a written percentage is 1e-6
Scale == 1000000

\* Python truthiness of a field read from a split line: '' is falsy
NonEmptyField(f) == f # <<EmptyP>>

\* int(s): succeeds on an integer literal without '|'
IntParses(f) == Len(f) = 1 /\ f[1].k = "int"
IntOf(f) == f[1].n

\* float(s): succeeds on integer and decimal literals and on "nan"
FloatParses(f) == Len(f) = 1 /\ f[1].k \in {"int", "dec", "nan"}
FloatIsNan(f) == f[1].k = "nan"
\* value of float(s) in units of 1e-6
FloatOf(f) == IF f[1].k = "int" THEN f[1].n * Scale ELSE f[1].n

RECURSIVE SumSeq(_)
SumSeq(s) == IF s = <<>> THEN 0 ELSE Head(s) + SumSeq(Tail(s))

RECURSIVE Flatten(_)
Flatten(ss) == IF ss = <<>> THEN <<>> ELSE Head(ss) \o Flatten(Tail(ss))

Range(s) == {s[i] : i \in 1..Len(s)}

Abs(x) == IF x < 0 THEN -x ELSE x

(***************************************************************************)
(* Division to a fixed number of decimals without leaving 32 bits.         *)
(* MulSmallDivMod(k, r, d, 0, 0) = <<(k*r) \div d, (k*r) % d>> for r < d.  *)
(***************************************************************************)
RECURSIVE MulSmallDivMod(_, _, _, _, _)
MulSmallDivMod(k, r, d, q, acc) ==
    IF k = 0 THEN <<q, acc>>
    ELSE LET s == acc + r
         IN  IF s >= d THEN MulSmallDivMod(k - 1, r, d, q + 1, s - d)
                       ELSE MulSmallDivMod(k - 1, r, d, q, s)

RECURSIVE ScaledDivMod(_, _, _, _)
ScaledDivMod(q, r, d, digits) ==
    IF digits = 0 THEN <<q, r>>
    ELSE LET s == MulSmallDivMod(10, r, d, 0, 0)
         IN  ScaledDivMod(q * 10 + s[1], s[2], d, digits - 1)

\* x / y * 100 written with "{:.6f}", in units of 1e-6 (round half to even)
FormatPercent(x, y) ==
    LET s == ScaledDivMod(x \div y, x % y, y, 8)
        q == s[1]
        r == s[2]
    IN  IF 2 * r > y \/ (2 * r = y /\ q % 2 = 1) THEN q + 1 ELSE q

(***************************************************************************)
(* Taxonomy Lookup Adapter: get_taxonomy_info.                             *)
(***************************************************************************)
valid_ranks == {"superkingdom", "phylum", "class", "order", "family", "genus", "species", "strain"}

rank_mapping == [r \in {"subspecies", "domain", "kingdom"} |->
                    IF r = "subspecies" THEN "strain" ELSE "superkingdom"]

\* what the taxonomy database answers; "RAISES" stands for a lookup that throws
OtherRanks == {"no rank", "clade"}
DbAnswers == valid_ranks \cup DOMAIN rank_mapping \cup OtherRanks \cup {"RAISES"}

TaxIds == {561, 562}

\* ncbi.get_lineage and ncbi.get_taxid_translator of the database
Lineage(taxid) == IF taxid = 562 THEN <<2, 561, 562>>
                  ELSE IF taxid = 561 THEN <<2, 561>>
                  ELSE <<taxid>>
\* f"taxid_{tid}"
TaxidName(tid) == [k |-> "text", n |-> tid, w |-> "taxid_"]

\* name_dict.get(tid, f"taxid_{tid}")
TaxName(tid) == IF tid = 2 THEN TextP("Bacteria")
                ELSE IF tid = 561 THEN TextP("Escherichia")
                ELSE IF tid = 562 THEN TextP("Escherichia coli")
                ELSE TaxidName(tid)

\* ncbi as convert_taxpasta_to_bioboxes hands it to the adapter: None or the database
NcbiAvailable(e) == e.use_ete3 /\ e.HAS_ETE3 /\ e.init_ok

Degraded(taxid) ==
    [rank |-> "unknown", taxpath |-> <<IntP(taxid)>>, taxpathsn |-> <<TaxidName(taxid)>>]

\* lineage = ncbi.get_lineage(taxid); if lineage is None: lineage = [taxid]
LineageOf(taxid, e) == IF e.lineage = "none" THEN <<taxid>> ELSE Lineage(taxid)

\* name_dict of a database that knows every name, or only the name of the root
NameKnown(tid, e) == e.names # "partial" \/ tid = 2

\* mutant: a taxid the database has no name for is left out of TAXPATHSN
TaxpathsnOfKnownOnly(lineage, e) ==
    LET known == SelectSeq(lineage, LAMBDA tid : NameKnown(tid, e))
    IN  [i \in 1..Len(known) |-> TaxName(known[i])]

\* "|".join(name_dict.get(tid, f"taxid_{tid}") for tid in lineage)
TaxpathsnOf(lineage, e) ==
    [i \in 1..Len(lineage) |->
        IF NameKnown(lineage[i], e) THEN TaxName(lineage[i]) ELSE TaxidName(lineage[i])]

\* a step inside the try block throws
LookupRaises(taxid, e) ==
    \/ taxid \notin DOMAIN e.rank
    \/ e.rank[taxid] = "RAISES"
    \/ e.lineage = "raises"
    \/ e.names = "raises"

get_taxonomy_info(taxid, e) ==
    IF ~e.HAS_ETE3 \/ ~NcbiAvailable(e) THEN Degraded(taxid)
    ELSE IF LookupRaises(taxid, e) THEN Degraded(taxid)
    ELSE [rank |-> e.rank[taxid],
          taxpath |-> [i \in 1..Len(LineageOf(taxid, e)) |-> IntP(LineageOf(taxid, e)[i])],
          taxpathsn |-> TaxpathsnOf(LineageOf(taxid, e), e)]

(***************************************************************************)
(* Files.  A line of a text file is one of                                 *)
(*   "blank"  empty after strip(),                                         *)
(*   "at"     starts with one '@': key is the \w+ before the first ':'     *)
(*            ("" when there is none), val the text after it split into    *)
(*            tokens (<<>> when nothing follows the ':'),                  *)
(*   "atat"   starts with "@@": val is the rest split on tabs,             *)
(*   "plain"  anything else: fields is the line split on tabs.             *)
(***************************************************************************)
BlankLine == [t |-> "blank", key |-> "", val |-> <<>>, fields |-> <<>>]
AtLine(key, val) == [t |-> "at", key |-> key, val |-> val, fields |-> <<>>]
AtAtLine(cols) == [t |-> "atat", key |-> "", val |-> cols, fields |-> <<>>]
PlainLine(fields) == [t |-> "plain", key |-> "", val |-> <<>>, fields |-> fields]

NoFile == [exists |-> FALSE, readable |-> FALSE, lines |-> <<>>]
TextFile(lines) == [exists |-> TRUE, readable |-> TRUE, lines |-> lines]

(***************************************************************************)
(* Format Converter: convert_taxpasta_to_bioboxes.                         *)
(***************************************************************************)
\* command-line defaults of taxpasta_to_bioboxes.py
DefaultRanks == <<"superkingdom", "phylum", "class", "order", "family", "genus", "species", "strain">>
DefaultVersion == <<"d", ".", "d", ".", "d">>   \* "0.9.1": digits.digits.digits
DefaultTaxonomyDb == "NCBI"
SampleId == "sample_1"

BioboxesColumns == <<"TAXID", "RANK", "TAXPATH", "TAXPATHSN", "PERCENTAGE">>

\* dropna, pd.to_numeric(errors='coerce'), dropna, count > 0
CountKept(row) ==
    /\ row.taxonomy_id.k # "na"
    /\ row.count.k = "int"
    /\ row.count.n > 0

\* mutant: the first row with a defect ends the reading of the table
CleanRowsUntilDefect(rows) ==
    SubSeq(rows, 1, Cardinality({n \in 1..Len(rows) : \A i \in 1..n : CountKept(rows[i])}))

CleanRows(rows) == SelectSeq(rows, CountKept)

TotalCounts(rows) == SumSeq([i \in 1..Len(CleanRows(rows)) |-> CleanRows(rows)[i].count.n])

\* mutant: the mapping table is forgotten in the filter
RankSkippedNoMapping(rank) == rank \notin valid_ranks

\* rank not in valid_ranks and rank not in rank_mapping
RankSkipped(rank) == rank \notin valid_ranks /\ rank \notin DOMAIN rank_mapping

MappedRank(rank) == IF rank \in DOMAIN rank_mapping THEN rank_mapping[rank] ELSE rank

\* the percentage of one row, as first written with six decimals
RowPercentage(count, total_counts) ==
    IF total_counts > 0 THEN FormatPercent(count, total_counts) ELSE 0

\* one pass of the loop body: <<>> when the row is skipped, else the result record
ProcessRow(row, total_counts, e) ==
    IF row.taxonomy_id.k # "int" THEN <<>>
    ELSE LET taxid == row.taxonomy_id.n
             info == get_taxonomy_info(taxid, e)
         IN  IF RankSkipped(info.rank) THEN <<>>
             ELSE <<[TAXID |-> taxid,
                     RANK |-> MappedRank(info.rank),
                     TAXPATH |-> info.taxpath,
                     TAXPATHSN |-> info.taxpathsn,
                     PERCENTAGE |-> RowPercentage(row.count.n, total_counts)]>>

\* mutant: a row whose identifier was already written is merged away
ResultsWithoutDuplicates(rows, e) ==
    LET clean == CleanRows(rows)
        total_counts == TotalCounts(rows)
    IN  Flatten([i \in 1..Len(clean) |->
                    IF \E j \in 1..(i - 1) : clean[j].taxonomy_id = clean[i].taxonomy_id
                    THEN <<>>
                    ELSE ProcessRow(clean[i], total_counts, e)])

ResultsBeforeRenorm(rows, e) ==
    LET clean == CleanRows(rows)
        total_counts == TotalCounts(rows)
    IN  Flatten([i \in 1..Len(clean) |-> ProcessRow(clean[i], total_counts, e)])

\* total_percentage > 0 and abs(total_percentage - 100.0) > 0.01
NeedsRenorm(total_percentage) ==
    total_percentage > 0 /\ Abs(total_percentage - 100 * Scale) > Scale \div 100

Renormalize(rs) ==
    LET total_percentage == SumSeq([i \in 1..Len(rs) |-> rs[i].PERCENTAGE])
    IN  IF NeedsRenorm(total_percentage)
        THEN [i \in 1..Len(rs) |->
                 [rs[i] EXCEPT !.PERCENTAGE = FormatPercent(rs[i].PERCENTAGE, total_percentage)]]
        ELSE rs

Results(rows, e) == Renormalize(ResultsBeforeRenorm(rows, e))

DataLine(r) == PlainLine(<< <<IntP(r.TAXID)>>, <<TextP(r.RANK)>>, r.TAXPATH, r.TAXPATHSN,
                           <<DecP(r.PERCENTAGE)>> >>)

WrittenFile(rs) ==
    TextFile(<< AtLine("SampleID", <<SampleId>>),
                AtLine("Version", DefaultVersion),
                AtLine("Ranks", DefaultRanks),
                AtLine("TaxonomyID", <<DefaultTaxonomyDb>>),
                AtAtLine(BioboxesColumns) >>
             \o [i \in 1..Len(rs) |-> DataLine(rs[i])])

\* mutant: only the taxonomy_id column is required
ConfigErrorWithoutCount(inp) ==
    \/ inp.status # "ok"
    \/ "taxonomy_id" \notin inp.columns

\* mutant: the columns are never checked
ConfigErrorUnreadableOnly(inp) == inp.status # "ok"

\* the input cannot be read, or a required column is missing: sys.exit(1)
ConfigError(inp) ==
    \/ inp.status # "ok"
    \/ "taxonomy_id" \notin inp.columns
    \/ "count" \notin inp.columns

\* the error main() or convert_taxpasta_to_bioboxes logs before sys.exit(1)
ConfigErrorMessage(inp) ==
    IF inp.status = "missing" THEN "Input file does not exist"
    ELSE IF inp.status # "ok" THEN "Error reading input file"
    ELSE "Input file must contain 'taxonomy_id' and 'count' columns"

\* if len(df) == 0: logging.warning("No valid data found in input file")
ConversionWarnings(rows) ==
    IF CleanRows(rows) = <<>> THEN {"No valid data found in input file"} ELSE {}

(***************************************************************************)
(* Format Validator: validate_bioboxes.                                    *)
(***************************************************************************)
Err(kind, line, arg, n) == [kind |-> kind, line |-> line, arg |-> arg, n |-> n]

\* stats: the keys that are set, and the values the model follows
EmptyStats == [keys |-> {}, data_rows |-> 0, unique_taxids |-> 0]

\* mutant: an early return that reports success
EarlyReturnValid(kind) ==
    [is_valid |-> TRUE, errors |-> <<Err(kind, 0, "", 0)>>, stats |-> EmptyStats]

\* the three early returns: (False, [message], {})
EarlyReturn(kind) ==
    [is_valid |-> FALSE, errors |-> <<Err(kind, 0, "", 0)>>, stats |-> EmptyStats]

\* re.match(r'@(\w+):(.+)', line)
HeaderMatches(l) == l.key # "" /\ l.val # <<>>

IsHeaderLine(l) == l.t = "at" /\ HeaderMatches(l)

\* errors of the first pass, in line order
InvalidHeaderErrors(lines) ==
    Flatten([i \in 1..Len(lines) |->
        IF lines[i].t = "at" /\ ~HeaderMatches(lines[i])
        THEN <<Err("Invalid header format", i, "", 0)>> ELSE <<>>])

\* headers: the keys, and for each key the value of its last line
HeaderKeys(lines) == {lines[i].key : i \in {j \in 1..Len(lines) : IsHeaderLine(lines[j])}}

HeaderValue(lines, key) ==
    LET at == {i \in 1..Len(lines) : IsHeaderLine(lines[i]) /\ lines[i].key = key}
        last == CHOOSE i \in at : \A j \in at : j <= i
    IN  lines[last].val

AtAtLines(lines) == {i \in 1..Len(lines) : lines[i].t = "atat"}

\* 'column_header' in stats
HasColumnHeader(lines) == AtAtLines(lines) # {}

\* stats['column_header'] split on tabs: the last "@@" line wins
FoundColumns(lines) ==
    LET last == CHOOSE i \in AtAtLines(lines) : \A j \in AtAtLines(lines) : j <= i
    IN  lines[last].val

\* data_lines: the numbers of the lines appended while in_data is set
DataLineNumbers(lines) ==
    LET first == CHOOSE i \in AtAtLines(lines) : \A j \in AtAtLines(lines) : i <= j
    IN  IF ~HasColumnHeader(lines) THEN <<>>
        ELSE SelectSeq([i \in 1..Len(lines) |-> i],
                       LAMBDA i : i > first /\ lines[i].t = "plain")

\* mutant: @Ranks is not required
required_headers_without_ranks == <<"SampleID", "Version">>

required_headers == <<"SampleID", "Version", "Ranks">>

MissingHeaderErrors(lines) ==
    Flatten([i \in 1..Len(required_headers) |->
        IF required_headers[i] \notin HeaderKeys(lines)
        THEN <<Err("Missing required header", 0, required_headers[i], 0)>> ELSE <<>>])

\* re.match(r'\d+\.\d+\.\d+', version): a match at the start of the value
VersionMatches(v) ==
    /\ Len(v) >= 5
    /\ v[1] = "d" /\ v[2] = "." /\ v[3] = "d" /\ v[4] = "." /\ v[5] = "d"

VersionErrors(lines) ==
    IF "Version" \in HeaderKeys(lines) /\ ~VersionMatches(HeaderValue(lines, "Version"))
    THEN <<Err("Version format invalid", 0, "", 0)>> ELSE <<>>

expected_ranks == {"superkingdom", "kingdom", "phylum", "class", "order",
                   "family", "genus", "species", "strain"}

\* r.startswith('no_rank'), for the rank names of the model
StartsWithNoRank(r) == r \in {"no_rank", "no_rank_1"}

RanksErrors(lines) ==
    IF "Ranks" \in HeaderKeys(lines)
       /\ \E r \in Range(HeaderValue(lines, "Ranks")) :
              r \notin expected_ranks /\ ~StartsWithNoRank(r)
    THEN <<Err("Unexpected rank names", 0, "", 0)>> ELSE <<>>

TaxonomyIDErrors(lines) ==
    IF "TaxonomyID" \in HeaderKeys(lines)
       /\ HeaderValue(lines, "TaxonomyID") \notin {<<"NCBI">>, <<"GTDB">>}
    THEN <<Err("Unusual TaxonomyID", 0, "", 0)>> ELSE <<>>

HeaderLevelErrors(lines) ==
    InvalidHeaderErrors(lines) \o MissingHeaderErrors(lines) \o VersionErrors(lines)
        \o RanksErrors(lines) \o TaxonomyIDErrors(lines)

expected_columns == <<"TAXID", "RANK", "TAXPATH", "TAXPATHSN", "PERCENTAGE">>

\* mutant: the five names must be the header, in this order
ColumnErrorsInOrder(lines) ==
    IF FoundColumns(lines) # expected_columns
    THEN <<Err("Missing required columns", 0, "", 0), Err("Found columns", 0, "", 0)>>
    ELSE <<>>

ColumnErrors(lines) ==
    IF \E c \in Range(expected_columns) : c \notin Range(FoundColumns(lines))
    THEN <<Err("Missing required columns", 0, "", 0), Err("Found columns", 0, "", 0)>>
    ELSE <<>>

\* rank not in rank_list and rank != 'no_rank' and rank != 'unknown'
RankListed(rank, rank_list) ==
    \/ \E r \in Range(rank_list) : rank = <<TextP(r)>>
    \/ rank = <<TextP("no_rank")>>
    \/ rank = <<TextP("unknown")>>

\* TAXID: int(taxid), then the sign
TaxidErrors(n, taxid) ==
    IF IntParses(taxid)
    THEN IF IntOf(taxid) <= 0 THEN <<Err("Invalid TAXID", n, "", 0)>> ELSE <<>>
    ELSE <<Err("TAXID not an integer", n, "", 0)>>

RankErrors(n, rank, lines) ==
    IF "Ranks" \in HeaderKeys(lines) /\ ~RankListed(rank, HeaderValue(lines, "Ranks"))
    THEN <<Err("RANK not in header Ranks", n, "", 0)>> ELSE <<>>

\* the loop over taxpath_parts stops at the first part int() rejects
TaxpathPartErrors(n, taxpath) ==
    IF \E i \in 1..Len(taxpath) : taxpath[i].k # "int"
    THEN <<Err("TAXPATH contains non-integer", n, "", 0)>> ELSE <<>>

\* int(taxpath_parts[-1]) != int(taxid); a ValueError passes silently
TaxpathLastErrors(n, taxid, taxpath) ==
    IF /\ NonEmptyField(taxid)
       /\ taxpath[Len(taxpath)].k = "int"
       /\ IntParses(taxid)
       /\ taxpath[Len(taxpath)].n # IntOf(taxid)
    THEN <<Err("Last TAXPATH element doesn't match TAXID", n, "", 0)>> ELSE <<>>

TaxpathErrors(n, taxid, taxpath) ==
    IF NonEmptyField(taxpath)
    THEN TaxpathPartErrors(n, taxpath) \o TaxpathLastErrors(n, taxid, taxpath)
    ELSE <<>>

TaxpathsnErrors(n, taxpath, taxpathsn) ==
    IF NonEmptyField(taxpathsn) /\ NonEmptyField(taxpath) /\ Len(taxpathsn) # Len(taxpath)
    THEN <<Err("TAXPATHSN doesn't match TAXPATH", n, "", 0)>> ELSE <<>>

\* mutant: the bounds themselves are rejected
PercentageOutOfRangeExclusive(pct) == pct <= 0 \/ pct >= 100 * Scale

\* pct < 0 or pct > 100; nan compares false both ways
PercentageOutOfRange(pct) == pct < 0 \/ pct > 100 * Scale

PercentageErrors(n, percentage) ==
    IF FloatParses(percentage)
    THEN IF ~FloatIsNan(percentage) /\ PercentageOutOfRange(FloatOf(percentage))
         THEN <<Err("PERCENTAGE out of range", n, "", 0)>> ELSE <<>>
    ELSE <<Err("PERCENTAGE not a number", n, "", 0)>>

\* the body of the loop over data_lines, for line number n
RowErrors(n, lines) ==
    LET fields == lines[n].fields
    IN  IF Len(fields) < 5
        THEN <<Err("Insufficient columns", n, "", Len(fields))>>
        ELSE TaxidErrors(n, fields[1])
                 \o RankErrors(n, fields[2], lines)
                 \o TaxpathErrors(n, fields[1], fields[3])
                 \o TaxpathsnErrors(n, fields[3], fields[4])
                 \o PercentageErrors(n, fields[5])

\* the lines that reach the field checks
FullRows(lines) ==
    SelectSeq(DataLineNumbers(lines), LAMBDA n : Len(lines[n].fields) >= 5)

\* taxids: one entry per row whose TAXID int() accepts
Taxids(lines) ==
    LET rows == SelectSeq(FullRows(lines), LAMBDA n : IntParses(lines[n].fields[1]))
    IN  [i \in 1..Len(rows) |-> IntOf(lines[rows[i]].fields[1])]

\* percentages: one entry per row whose PERCENTAGE float() accepts
PercentageRows(lines) ==
    SelectSeq(FullRows(lines), LAMBDA n : FloatParses(lines[n].fields[5]))

\* sum(percentages) in exact arithmetic, in units of 1e-6
ExactSum(lines) ==
    SumSeq([i \in 1..Len(PercentageRows(lines)) |-> FloatOf(lines[PercentageRows(lines)[i]].fields[5])])

\* a double holds the value exactly: a multiple of 2^-6 in the range of the model
ExactlyRepresentable(f) == FloatIsNan(f) \/ FloatOf(f) % 15625 = 0

\* sum() adds the doubles from left to right.  A sum of exactly representable
\* terms is exact, and so is the sum of two terms that lies exactly 1.0 from 100;
\* from three terms on, of which one is rounded when parsed, a sum that lies
\* exactly 1.0 from 100 comes out at that distance or one unit in the last place
\* beyond it: Python 3.11 adds naively, later versions compensate the rounding
SumMayRoundOff(lines) ==
    LET rows == PercentageRows(lines)
    IN  /\ Len(rows) >= 3
        /\ \A i \in 1..Len(rows) : ~FloatIsNan(lines[rows[i]].fields[5])
        /\ \E i \in 1..Len(rows) : ~ExactlyRepresentable(lines[rows[i]].fields[5])
        /\ Abs(ExactSum(lines) - 100 * Scale) = Scale

\* abs(pct_sum - 100) > 1.0; a nan among the terms makes the sum nan; off tells
\* that the rounding of the additions moved the sum away from 100
PercentageSumErrors(lines, off) ==
    LET rows == PercentageRows(lines)
    IN  IF /\ rows # <<>>
           /\ \A i \in 1..Len(rows) : ~FloatIsNan(lines[rows[i]].fields[5])
           /\ \/ Abs(ExactSum(lines) - 100 * Scale) > Scale
              \/ off /\ SumMayRoundOff(lines)
        THEN <<Err("Percentages sum", 0, "", 0)>> ELSE <<>>

\* mutant: one diagnostic per duplicated row instead of one in total
DuplicateErrorsPerRow(lines) ==
    LET taxids == [i \in 1..Len(FullRows(lines)) |-> lines[FullRows(lines)[i]].fields[1]]
        ints == SelectSeq(taxids, IntParses)
    IN  Flatten([i \in 1..Len(ints) |->
            IF \E j \in 1..Len(ints) : j # i /\ ints[j] = ints[i]
            THEN <<Err("duplicate TAXID entries", 0, "", 1)>> ELSE <<>>])

\* duplicates = len(taxids) - len(set(taxids))
Duplicates(taxids) == Len(taxids) - Cardinality(Range(taxids))

DuplicateErrors(lines) ==
    IF Taxids(lines) # <<>> /\ Duplicates(Taxids(lines)) > 0
    THEN <<Err("duplicate TAXID entries", 0, "", Duplicates(Taxids(lines)))>> ELSE <<>>

DataErrors(lines, off) ==
    LET data_lines == DataLineNumbers(lines)
    IN  IF data_lines = <<>> THEN <<Err("No data rows found", 0, "", 0)>>
        ELSE Flatten([i \in 1..Len(data_lines) |-> RowErrors(data_lines[i], lines)])
                 \o PercentageSumErrors(lines, off) \o DuplicateErrors(lines)

HeaderStatKeys(lines) ==
    {"total_lines", "headers_found"}
        \cup (IF "Version" \in HeaderKeys(lines) THEN {"version"} ELSE {})
        \cup (IF "Ranks" \in HeaderKeys(lines) THEN {"ranks", "num_ranks"} ELSE {})
        \cup (IF "TaxonomyID" \in HeaderKeys(lines) THEN {"taxonomy_db"} ELSE {})

DataStatKeys(lines) ==
    {"column_header", "columns_found", "data_rows"}
        \cup (IF PercentageRows(lines) # <<>>
              THEN {"total_percentage", "min_percentage", "max_percentage"} ELSE {})
        \cup (IF Taxids(lines) # <<>> THEN {"unique_taxids"} ELSE {})

\* is_valid = len(errors) == 0
IsValid(errors) == Len(errors) = 0

\* "Missing column header": return False, errors, stats
MissingColumnHeaderReturn(lines) ==
    [is_valid |-> FALSE,
     errors |-> HeaderLevelErrors(lines) \o <<Err("Missing column header", 0, "", 0)>>,
     stats |-> [EmptyStats EXCEPT !.keys = HeaderStatKeys(lines)]]

FullReturn(lines, off) ==
    LET errors == HeaderLevelErrors(lines) \o ColumnErrors(lines) \o DataErrors(lines, off)
    IN  [is_valid |-> IsValid(errors),
         errors |-> errors,
         stats |-> [keys |-> HeaderStatKeys(lines) \cup DataStatKeys(lines),
                    data_rows |-> Len(DataLineNumbers(lines)),
                    unique_taxids |-> Cardinality(Range(Taxids(lines)))]]

\* validate_bioboxes when the rounding of sum() is as off tells
validate_bioboxes_summing(file, off) ==
    IF ~file.exists THEN EarlyReturn("File not found")
    ELSE IF ~file.readable THEN EarlyReturn("Cannot read file")
    ELSE IF file.lines = <<>> THEN EarlyReturn("File is empty")
    ELSE IF ~HasColumnHeader(file.lines) THEN MissingColumnHeaderReturn(file.lines)
    ELSE FullReturn(file.lines, off)

\* the return value when no addition of sum() is rounded away from 100
validate_bioboxes(file) == validate_bioboxes_summing(file, FALSE)

\* the return values the builds of Python give
ValidateBioboxesOutcomes(file) ==
    {validate_bioboxes_summing(file, off) :
        off \in IF file.exists /\ file.readable /\ HasColumnHeader(file.lines)
                   /\ SumMayRoundOff(file.lines)
                THEN BOOLEAN ELSE {FALSE}}

\* main() of validate_bioboxes.py: return 0 if is_valid, else 1 if args.strict else 0
\* mutant: --strict is ignored
ExitCodeIgnoringStrict(is_valid, args_strict) == 0

\* return 0 when valid, else 1 if args.strict else 0
ExitCode(is_valid, args_strict) == IF is_valid THEN 0 ELSE IF args_strict THEN 1 ELSE 0

(***************************************************************************)
(* Gold-standard fixer: fix_gold_standard.  The lines of its input are     *)
(* those of a Bioboxes file; it skips the lines that start with '@' (or    *)
(* '#'), keeps the last "@@" line as the column header and takes every     *)
(* other non-blank line as a data line, wherever it stands.                *)
(***************************************************************************)
fix_valid_ranks == {"superkingdom", "phylum", "class", "order", "family", "genus", "species", "strain"}

\* mutant: the mapping table of the converter
fix_rank_mapping_of_converter == rank_mapping

fix_rank_mapping == [r \in {"subspecies"} |-> "strain"]

\* str(taxid) without the database or when get_lineage answers nothing or throws,
\* else '|'.join(map(str, lineage))
get_lineage_path(taxid, e) ==
    IF ~e.HAS_ETE3 \/ ~e.init_ok \/ e.lineage \in {"none", "raises"} THEN <<IntP(taxid)>>
    ELSE [i \in 1..Len(Lineage(taxid)) |-> IntP(Lineage(taxid)[i])]

\* line.strip() before split('\t'): the tabs around empty fields at either end
\* of a line are white space and go with it
RECURSIVE DropLeadingEmpty(_)
DropLeadingEmpty(fs) ==
    IF fs # <<>> /\ Head(fs) = <<EmptyP>> THEN DropLeadingEmpty(Tail(fs)) ELSE fs

RECURSIVE DropTrailingEmpty(_)
DropTrailingEmpty(fs) ==
    IF fs # <<>> /\ fs[Len(fs)] = <<EmptyP>> THEN DropTrailingEmpty(SubSeq(fs, 1, Len(fs) - 1)) ELSE fs

StripFields(fs) == DropTrailingEmpty(DropLeadingEmpty(fs))

\* a line of the file as the loop over the file sees it after line.strip()
ReadLine(l) ==
    IF l.t # "plain" THEN l
    ELSE IF StripFields(l.fields) = <<>> THEN BlankLine
    ELSE PlainLine(StripFields(l.fields))

ReadLines(file) == [i \in 1..Len(file.lines) |-> ReadLine(file.lines[i])]

\* data_lines
GoldDataLines(lines) == SelectSeq(lines, LAMBDA l : l.t = "plain")

\* the three branches of "Determine if we need to fix"
\* mutant: the header is never compared with the first data row
NeedsFixWithoutComparison(lines) ==
    IF "TAXPATH" \notin Range(FoundColumns(lines)) THEN "add column" ELSE "column count mismatch"

NeedsFix(lines) ==
    LET columns == FoundColumns(lines)
        data_lines == GoldDataLines(lines)
        first_data_row == IF data_lines # <<>> THEN data_lines[1].fields ELSE <<>>
    IN  IF "TAXPATH" \notin Range(columns) THEN "add column"
        ELSE IF Len(columns) # Len(first_data_row) THEN "column count mismatch"
        ELSE "no fix needed"

\* columns.index(name): the first position of the name
ColumnIndex(columns, name) ==
    CHOOSE i \in 1..Len(columns) : columns[i] = name /\ \A j \in 1..(i - 1) : columns[j] # name

FixedColumns == {"TAXID", "RANK", "TAXPATHSN", "PERCENTAGE"}

\* taxid_idx, rank_idx, taxpathsn_idx, percentage_idx (counted from 1)
FixIndices(lines) ==
    IF NeedsFix(lines) = "add column"
    THEN [c \in FixedColumns |-> ColumnIndex(FoundColumns(lines), c)]
    ELSE [c \in FixedColumns |->
             IF c = "TAXID" THEN 1 ELSE IF c = "RANK" THEN 2 ELSE IF c = "TAXPATHSN" THEN 3 ELSE 4]

\* columns.index raises ValueError for a name the header lacks
FixHeaderRaises(lines) ==
    NeedsFix(lines) = "add column" /\ \E c \in FixedColumns : c \notin Range(FoundColumns(lines))

\* int(parts[taxid_idx]) and the three parts[...] raise on a short line or a
\* TAXID that is not an integer, whatever the rank of the line
FixRowRaises(parts, idx) ==
    \/ \E c \in FixedColumns : idx[c] > Len(parts)
    \/ ~IntParses(parts[idx["TAXID"]])

\* the rank as the text it is compared by
RankText(f) == IF Len(f) = 1 /\ f[1].k = "text" THEN f[1].w ELSE ""

\* rank not in valid_ranks and rank not in rank_mapping
FixRankSkipped(rank) == rank \notin fix_valid_ranks /\ rank \notin DOMAIN fix_rank_mapping

FixMappedRank(rank) == IF rank \in DOMAIN fix_rank_mapping THEN fix_rank_mapping[rank] ELSE rank

\* one pass of the loop over data_lines: <<>> when the line is skipped
FixRow(parts, idx, e) ==
    IF FixRankSkipped(RankText(parts[idx["RANK"]])) THEN <<>>
    ELSE <<[TAXID |-> IntOf(parts[idx["TAXID"]]),
            RANK |-> FixMappedRank(RankText(parts[idx["RANK"]])),
            TAXPATH |-> get_lineage_path(IntOf(parts[idx["TAXID"]]), e),
            TAXPATHSN |-> parts[idx["TAXPATHSN"]],
            PERCENTAGE |-> parts[idx["PERCENTAGE"]]]>>

FixResults(lines, e) ==
    LET data_lines == GoldDataLines(lines)
    IN  Flatten([i \in 1..Len(data_lines) |-> FixRow(data_lines[i].fields, FixIndices(lines), e)])

\* float(r['PERCENTAGE']) of the sum raises ValueError
FixFloatRaises(rs) == \E i \in 1..Len(rs) : ~FloatParses(rs[i].PERCENTAGE)

\* the percentages stay as they were read unless they are renormalized
FixRenormalize(rs) ==
    LET total_percentage == SumSeq([i \in 1..Len(rs) |-> FloatOf(rs[i].PERCENTAGE)])
    IN  IF (\A i \in 1..Len(rs) : ~FloatIsNan(rs[i].PERCENTAGE)) /\ NeedsRenorm(total_percentage)
        THEN [i \in 1..Len(rs) |->
                 [rs[i] EXCEPT !.PERCENTAGE =
                     <<DecP(FormatPercent(FloatOf(rs[i].PERCENTAGE), total_percentage))>>]]
        ELSE rs

GoldSampleId == "gold_standard"

FixDataLine(r) ==
    PlainLine(<< <<IntP(r.TAXID)>>, <<TextP(r.RANK)>>, r.TAXPATH, r.TAXPATHSN, r.PERCENTAGE >>)

FixedFile(rs) ==
    TextFile(<< AtLine("SampleID", <<GoldSampleId>>),
                AtLine("Version", DefaultVersion),
                AtLine("Ranks", DefaultRanks),
                AtLine("TaxonomyID", <<DefaultTaxonomyDb>>),
                AtAtLine(BioboxesColumns) >>
             \o [i \in 1..Len(rs) |-> FixDataLine(rs[i])])

\* one run of fix_gold_standard.py: what it reported, the file it wrote (NoFile
\* when it wrote none) and its exit code; an uncaught exception ends it with 1
FixRun(outcome, output) ==
    [outcome |-> outcome, output |-> output, exit |-> IF outcome = "raised" THEN 1 ELSE 0]

\* the body of fix_gold_standard once the lines are read
FixLines(lines, e) ==
    IF AtAtLines(lines) = {} THEN FixRun("No column header found", NoFile)
    ELSE IF NeedsFix(lines) = "no fix needed" THEN FixRun("no fix needed", NoFile)
    ELSE IF FixHeaderRaises(lines) THEN FixRun("raised", NoFile)
    ELSE IF \E i \in 1..Len(GoldDataLines(lines)) :
                FixRowRaises(GoldDataLines(lines)[i].fields, FixIndices(lines))
    THEN FixRun("raised", NoFile)
    ELSE IF FixFloatRaises(FixResults(lines, e)) THEN FixRun("raised", NoFile)
    ELSE FixRun("Successfully fixed", FixedFile(FixRenormalize(FixResults(lines, e))))

fix_gold_standard(file, e) ==
    IF ~file.exists \/ ~file.readable THEN FixRun("raised", NoFile)
    ELSE FixLines(ReadLines(file), e)

(***************************************************************************)
(* validate_taxpasta, on the table the converter reads.                    *)
(***************************************************************************)
required_columns == <<"taxonomy_id", "count">>

\* pd.to_numeric(errors='coerce') leaves NaN for a missing or non-numeric cell
NumericIsNa(cell) == cell.k \notin {"int", "dec"}

\* one message, or a message and its "Examples" line, when n > 0
CountError(kind, n, examples) ==
    IF n > 0
    THEN IF examples THEN <<Err(kind, 0, "", n), Err("Examples", 0, "", 0)>>
                     ELSE <<Err(kind, 0, "", n)>>
    ELSE <<>>

TaxpastaTaxids(rows) ==
    LET valid == SelectSeq(rows, LAMBDA r : ~NumericIsNa(r.taxonomy_id))
    IN  [i \in 1..Len(valid) |-> valid[i].taxonomy_id.n]

TaxpastaErrors(rows) ==
    CountError("missing taxonomy_id", Len(SelectSeq(rows, LAMBDA r : r.taxonomy_id.k = "na")), FALSE)
    \o CountError("invalid taxonomy_id", Len(SelectSeq(rows, LAMBDA r : NumericIsNa(r.taxonomy_id))), TRUE)
    \o CountError("non-positive taxonomy_id",
                  Len(SelectSeq(rows, LAMBDA r : ~NumericIsNa(r.taxonomy_id) /\ r.taxonomy_id.n <= 0)), FALSE)
    \o CountError("missing count", Len(SelectSeq(rows, LAMBDA r : r.count.k = "na")), FALSE)
    \o CountError("invalid count", Len(SelectSeq(rows, LAMBDA r : NumericIsNa(r.count))), TRUE)
    \o CountError("non-positive count",
                  Len(SelectSeq(rows, LAMBDA r : ~NumericIsNa(r.count) /\ r.count.n <= 0)), FALSE)
    \o CountError("duplicate taxonomy_id", Duplicates(TaxpastaTaxids(rows)), TRUE)

\* the keys of the statistics mapping: a counter is stored only when positive,
\* the read totals only when some count is numeric
TaxpastaStatKeys(rows) ==
    LET Stored(key, n) == IF n > 0 THEN {key} ELSE {}
    IN  {"total_rows", "total_entries", "valid_rows", "unique_taxa"}
        \cup Stored("missing_taxonomy_id", Len(SelectSeq(rows, LAMBDA r : r.taxonomy_id.k = "na")))
        \cup Stored("invalid_taxonomy_id", Len(SelectSeq(rows, LAMBDA r : NumericIsNa(r.taxonomy_id))))
        \cup Stored("negative_taxonomy_id",
                    Len(SelectSeq(rows, LAMBDA r : ~NumericIsNa(r.taxonomy_id) /\ r.taxonomy_id.n <= 0)))
        \cup Stored("missing_count", Len(SelectSeq(rows, LAMBDA r : r.count.k = "na")))
        \cup Stored("invalid_count", Len(SelectSeq(rows, LAMBDA r : NumericIsNa(r.count))))
        \cup Stored("negative_count",
                    Len(SelectSeq(rows, LAMBDA r : ~NumericIsNa(r.count) /\ r.count.n <= 0)))
        \cup (IF \E i \in 1..Len(rows) : ~NumericIsNa(rows[i].count)
              THEN {"total_reads", "min_count", "max_count", "mean_count"} ELSE {})
        \cup Stored("duplicate_taxonomy_id", Duplicates(TaxpastaTaxids(rows)))

validate_taxpasta(inp) ==
    IF inp.status = "missing" THEN EarlyReturn("File not found")
    ELSE IF inp.status = "unreadable" THEN EarlyReturn("Cannot read file")
    ELSE IF inp.status = "empty" THEN EarlyReturn("File is empty")
    ELSE IF \E c \in Range(required_columns) : c \notin inp.columns
    THEN [is_valid |-> FALSE,
          errors |-> <<Err("Missing required columns", 0, "", 0), Err("Found columns", 0, "", 0)>>,
          stats |-> [EmptyStats EXCEPT !.keys = {"total_rows"}]]
    ELSE [is_valid |-> IsValid(TaxpastaErrors(inp.rows)),
          errors |-> TaxpastaErrors(inp.rows),
          stats |-> [EmptyStats EXCEPT !.keys = TaxpastaStatKeys(inp.rows),
                                      !.data_rows = Len(inp.rows)]]

(***************************************************************************)
(* Profiler-format check: validate_profiler_format.py.  A line of the file *)
(* is [t, hash, cols]: t = "blank" when strip() leaves nothing, hash when  *)
(* the line starts with '#', cols the number of tab-separated columns.  A  *)
(* path is [suffix, warning]: its suffix, and whether its text contains    *)
(* "WARNING".  An issue is [kind, line, warning]: warning tells whether    *)
(* the text of the message contains "WARNING".                             *)
(***************************************************************************)
NoMax == 0      \* max_columns: None

ProfilerSpec(extensions, min_columns, max_columns, header_marker) ==
    [extensions |-> extensions, min_columns |-> min_columns, max_columns |-> max_columns,
     header_marker |-> header_marker]

PROFILER_SPECS ==
    ("kraken2" :> ProfilerSpec({".kreport", ".kreport2"}, 6, 6, FALSE))
        @@ ("bracken" :> ProfilerSpec({".kreport", ".bracken"}, 6, 7, FALSE))
        @@ ("centrifuge" :> ProfilerSpec({".report"}, 6, 6, FALSE))
        @@ ("metaphlan" :> ProfilerSpec({".profile", ".mpa", ".mpa3"}, 3, 4, TRUE))
        @@ ("kaiju" :> ProfilerSpec({".kaiju", ".out"}, 3, NoMax, FALSE))
        @@ ("diamond" :> ProfilerSpec({".diamond", ".tsv"}, 2, NoMax, FALSE))
        @@ ("ganon" :> ProfilerSpec({".ganon", ".out"}, 3, NoMax, FALSE))
        @@ ("kmcp" :> ProfilerSpec({".kmcp", ".out"}, 2, NoMax, FALSE))
        @@ ("motus" :> ProfilerSpec({".motus", ".out"}, 2, NoMax, FALSE))
        @@ ("krakenuniq" :> ProfilerSpec({".krakenuniq", ".kreport"}, 6, 8, FALSE))
        @@ ("megan6" :> ProfilerSpec({".megan", ".rma6"}, 2, NoMax, FALSE))

Issue(kind, line, warning) == [kind |-> kind, line |-> line, warning |-> warning]

\* args.profiler.lower(), on the names of the model
Lower(name) == IF name = "Kraken2" THEN "kraken2" ELSE name

\* the suffix is quoted in the first message
ExtensionIssues(spec, path) ==
    IF path.suffix \notin spec.extensions
    THEN <<Issue("File extension does not match", 0, path.suffix = ".WARNING"),
           Issue("Expected extensions", 0, FALSE)>>
    ELSE <<>>

\* lines = [line.rstrip("\n") for line in f if line.strip()]
NonBlankLines(lines) == SelectSeq(lines, LAMBDA l : l.t # "blank")

\* header_marker and line.startswith(header_marker)
IsHeaderOf(spec, l) == spec.header_marker /\ l.hash

ProfilerDataLines(spec, lines) == SelectSeq(NonBlankLines(lines), LAMBDA l : ~IsHeaderOf(spec, l))

CheckedLines == 10

\* data_lines[:10]
FirstDataLines(spec, lines) ==
    LET data == ProfilerDataLines(spec, lines)
    IN  SubSeq(data, 1, IF Len(data) < CheckedLines THEN Len(data) ELSE CheckedLines)

LineIssues(spec, i, col_count) ==
    (IF col_count < spec.min_columns
     THEN <<Issue("expects at least", i, FALSE), Issue("Expected columns", 0, FALSE)>>
     ELSE <<>>)
        \o (IF spec.max_columns # NoMax /\ col_count > spec.max_columns
            THEN <<Issue("expects at most", i, FALSE), Issue("Expected columns", 0, FALSE)>>
            ELSE <<>>)

ColumnIssues(spec, lines) ==
    LET checked == FirstDataLines(spec, lines)
    IN  Flatten([i \in 1..Len(checked) |-> LineIssues(spec, i, checked[i].cols)])

\* if len(column_counts) > 1
InconsistentIssues(spec, lines) ==
    LET checked == FirstDataLines(spec, lines)
    IN  IF Cardinality({checked[i].cols : i \in 1..Len(checked)}) > 1
        THEN <<Issue("WARNING: Inconsistent column counts", 0, TRUE)>>
        ELSE <<>>

\* mutant: a warning makes the file invalid as well
IsValidWithoutIssues(issues) == Len(issues) = 0

\* len(issues) == 0 or all("WARNING" in issue for issue in issues)
IsValidIssues(issues) == Len(issues) = 0 \/ \A i \in 1..Len(issues) : issues[i].warning

Verdict(is_valid, issues) == [is_valid |-> is_valid, issues |-> issues]

\* the profiler has been lowercased by main(); the messages of a missing path and
\* of a path that cannot be opened quote the path
validate_file_format(profiler, path, file) ==
    IF profiler \notin DOMAIN PROFILER_SPECS
    THEN Verdict(FALSE, <<Issue("Unknown profiler", 0, FALSE), Issue("Supported profilers", 0, FALSE)>>)
    ELSE IF file.status = "missing"
    THEN Verdict(FALSE, <<Issue("File does not exist", 0, path.warning)>>)
    ELSE LET spec == PROFILER_SPECS[profiler]
             issues == ExtensionIssues(spec, path)
         IN  IF file.status = "directory"
             THEN Verdict(FALSE, issues \o <<Issue("Error reading file", 0, path.warning)>>)
             ELSE IF file.status = "undecodable"
             THEN Verdict(FALSE, issues \o <<Issue("Error reading file", 0, FALSE)>>)
             ELSE IF NonBlankLines(file.lines) = <<>>
             THEN Verdict(FALSE, issues \o <<Issue("File is empty", 0, FALSE)>>)
             ELSE IF ProfilerDataLines(spec, file.lines) = <<>>
             THEN Verdict(FALSE, issues \o <<Issue("File contains no data lines", 0, FALSE)>>)
             ELSE LET all == issues \o ColumnIssues(spec, file.lines)
                                   \o InconsistentIssues(spec, file.lines)
                  IN  Verdict(IsValidIssues(all), all)

(***************************************************************************)
(* Inputs of the model.                                                    *)
(***************************************************************************)
\* rows of the taxpasta table
InputRow(id, count) == [taxonomy_id |-> id, count |-> IntP(count)]

InputRows ==
    {InputRow(IntP(562), c) : c \in {100, BigCount}}
        \cup {InputRow(IntP(561), 1)}
        \cup {InputRow(TextP("ABC"), c) : c \in {50, BigCount}}
        \cup {[taxonomy_id |-> NaP, count |-> IntP(100)],
              [taxonomy_id |-> IntP(562), count |-> IntP(0)],
              [taxonomy_id |-> IntP(562), count |-> TextP("many")],
              [taxonomy_id |-> IntP(562), count |-> NaP]}

Tables == UNION {[1..n -> InputRows] : n \in 0..MaxRows}

BothColumns == {"taxonomy_id", "count"}

Inputs ==
    {[status |-> "ok", columns |-> BothColumns, rows |-> t] : t \in Tables}
        \cup {[status |-> st, columns |-> BothColumns, rows |-> <<>>] :
                  st \in {"missing", "unreadable", "empty"}}
        \cup {[status |-> "ok", columns |-> {c}, rows |-> <<>>] : c \in BothColumns}

NoInput == [status |-> "missing", columns |-> BothColumns, rows |-> <<>>]

\* tables of three rows: two rows that are written and a third, of non-integer
\* identifier, whose count is part of total_counts
SkewedTables ==
    {<<InputRow(IntP(562), 100), InputRow(IntP(561), 1), InputRow(TextP("ABC"), c)>> :
        c \in {50, BigCount}}

\* a file left at the output path by an earlier run
OldFile == TextFile(<<AtLine("SampleID", <<"earlier_run">>)>>)

SkewedInputs == {[status |-> "ok", columns |-> BothColumns, rows |-> t] : t \in SkewedTables}

\* profiler report files
MaxReportLines == 2

ColumnCounts == 1..9

ReportLine(cols) == [t |-> "text", hash |-> FALSE, cols |-> cols]

HashLine(cols) == [t |-> "text", hash |-> TRUE, cols |-> cols]

BlankReportLine == [t |-> "blank", hash |-> FALSE, cols |-> 1]

ReportLines == {ReportLine(c) : c \in ColumnCounts} \cup {HashLine(1), HashLine(3), BlankReportLine}

Report(lines) == [status |-> "ok", lines |-> lines]

ShortReports == {Report(ls) : ls \in UNION {[1..n -> ReportLines] : n \in 0..MaxReportLines}}

\* CheckedLines + 1 lines of the same column count, with another line in the place
\* of the last or of the last but one, and with or without a '#' line on top
LongReports ==
    {Report(top \o [i \in 1..(CheckedLines + 1) |-> IF i = at THEN l ELSE ReportLine(c)]) :
        top \in {<<>>, <<HashLine(3)>>},
        c \in {3, 6},
        at \in {CheckedLines, CheckedLines + 1},
        l \in {ReportLine(1), ReportLine(4), ReportLine(7), ReportLine(9), HashLine(1)}}

AbsentReports == {[status |-> st, lines |-> <<>>] : st \in {"missing", "directory", "undecodable"}}

ReportPath(suffix, warning) == [suffix |-> suffix, warning |-> warning]

ReportPaths ==
    {ReportPath(x, FALSE) : x \in {".kreport", ".report", ".profile", ".out", ".tsv", ".megan", ".txt", ""}}
        \cup {ReportPath(".kreport", TRUE), ReportPath(".WARNING", TRUE)}

ProfilerArgs == DOMAIN PROFILER_SPECS \cup {"Kraken2", "unknown"}

\* the taxonomy database and the three ways of not having it
DefaultRankOf == [t \in TaxIds |-> IF t = 562 THEN "species" ELSE "genus"]

DefaultEnv == [HAS_ETE3 |-> TRUE, use_ete3 |-> TRUE, init_ok |-> TRUE, rank |-> DefaultRankOf,
               lineage |-> "ok", names |-> "ok"]

Envs ==
    {[DefaultEnv EXCEPT !.rank[562] = a] : a \in DbAnswers}
        \cup {[DefaultEnv EXCEPT !.HAS_ETE3 = FALSE],
              [DefaultEnv EXCEPT !.use_ete3 = FALSE],
              [DefaultEnv EXCEPT !.init_ok = FALSE]}
        \cup {[DefaultEnv EXCEPT !.lineage = l] : l \in {"none", "raises"}}
        \cup {[DefaultEnv EXCEPT !.names = n] : n \in {"partial", "raises"}}

\* hand-made Bioboxes files: a good row, and rows that deviate from it in one field
Names1 == <<TextP("Escherichia coli")>>
Names2 == <<TextP("Bacteria"), TextP("Escherichia coli")>>
Path562 == <<IntP(2), IntP(562)>>

Row(taxid, taxpath, taxpathsn, percentage) ==
    << taxid, <<TextP("species")>>, taxpath, taxpathsn, percentage >>

Percent(p) == <<DecP(p * Scale)>>

CraftRows ==
    {Row(<<IntP(562)>>, Path562, Names2, Percent(p)) : p \in {0, 50, 100}}
        \cup {Row(t, Path562, Names2, Percent(50)) : t \in {<<IntP(0)>>, <<TextP("ABC")>>}}
        \cup {Row(<<IntP(562)>>, tp, Names2, Percent(50)) :
                  tp \in {<<EmptyP>>, <<IntP(2), IntP(561)>>, <<IntP(2), TextP("x")>>}}
        \cup {Row(<<IntP(562)>>, Path562, sn, Percent(50)) : sn \in {Names1, <<EmptyP>>}}
        \cup {Row(<<IntP(562)>>, Path562, Names2, p) :
                  p \in {<<DecP(100 * Scale + 100)>>, <<DecP(0 - 100)>>, <<IntP(100)>>,
                         <<TextP("ten")>>, <<NanP>>}}
        \cup {Row(<<IntP(561)>>, <<IntP(2), IntP(561)>>, Names2, Percent(50))}
        \cup {SubSeq(Row(<<IntP(562)>>, Path562, Names2, Percent(50)), 1, 4),
              Row(<<IntP(562)>>, Path562, Names2, Percent(50)) \o << <<TextP("extra")>> >>}

CraftHeaderLine(key) ==
    IF key = "SampleID" THEN AtLine(key, <<SampleId>>)
    ELSE IF key = "Version" THEN AtLine(key, DefaultVersion)
    ELSE AtLine(key, DefaultRanks)

CraftLines(keys, colhdr, rows) ==
    SelectSeq([i \in 1..Len(required_headers) |-> CraftHeaderLine(required_headers[i])],
              LAMBDA l : l.key \in keys)
        \o (IF colhdr THEN <<AtAtLine(BioboxesColumns)>> ELSE <<>>)
        \o [i \in 1..Len(rows) |-> PlainLine(rows[i])]

\* a line that starts with '@' put after the data rows of a complete file
TrailingLines == {AtLine("TaxonomyID", <<DefaultTaxonomyDb>>), AtAtLine(BioboxesColumns)}

CraftFiles ==
    {TextFile(CraftLines(keys, colhdr, rows)) :
        keys \in SUBSET Range(required_headers),
        colhdr \in BOOLEAN,
        rows \in UNION {[1..n -> CraftRows] : n \in 0..MaxDataLines}}
        \cup {NoFile,
              [exists |-> TRUE, readable |-> FALSE, lines |-> <<>>],
              TextFile(<<BlankLine>>)}

\* complete files with one more line after the data rows
TrailedFiles ==
    {TextFile(CraftLines(Range(required_headers), TRUE, rows) \o <<t>>) :
        rows \in UNION {[1..n -> CraftRows] : n \in 0..MaxDataLines},
        t \in TrailingLines}

\* column-header lines other than the usual one: the five names in another order,
\* with a sixth name, and without TAXPATH
ColumnHeaders ==
    {<<"PERCENTAGE", "TAXPATHSN", "TAXPATH", "RANK", "TAXID">>,
     <<"TAXID", "RANK", "TAXPATH", "TAXPATHSN", "PERCENTAGE", "EXTRA">>,
     <<"TAXID", "RANK", "TAXPATHSN", "PERCENTAGE">>}

\* complete files under each of these column headers
ColumnFiles ==
    {TextFile(CraftLines(Range(required_headers), FALSE, <<>>) \o <<AtAtLine(cols)>>
                  \o [i \in 1..Len(rows) |-> PlainLine(rows[i])]) :
        cols \in ColumnHeaders,
        rows \in UNION {[1..n -> CraftRows] : n \in 0..MaxDataLines}}

\* values of the @Version line: runs of digits "d", dots, and other text "x"
VersionValues ==
    {<<"d", ".", "d", ".", "d">>,                 \* 0.9.1
     <<"d", ".", "d">>,                           \* 0.9
     <<"d", ".", "d", ".", "d", ".", "d">>,       \* 0.9.1.2
     <<"d", ".", "d", ".", "d", "x">>,            \* 0.9.1-beta
     <<"x", "d", ".", "d", ".", "d">>,            \* v0.9.1
     <<"x">>}                                     \* latest

\* a complete file of one good row, with each value of @Version
VersionFiles ==
    {TextFile(<<AtLine("SampleID", <<SampleId>>), AtLine("Version", v), AtLine("Ranks", DefaultRanks),
                AtAtLine(BioboxesColumns),
                PlainLine(Row(<<IntP(562)>>, Path562, Names2, Percent(100)))>>) :
        v \in VersionValues}

\* percentages around the tolerance of the sum check: 49 + 50 and 50 + 51 lie
\* exactly 1.0 from 100, 48.999999 + 50 and 50 + 51.000001 just beyond
SumPercentages == {<<DecP(49 * Scale)>>, <<DecP(50 * Scale)>>, <<DecP(51 * Scale)>>,
                   <<DecP(48999999)>>, <<DecP(51000001)>>}

SumRow(p) == Row(<<IntP(562)>>, Path562, Names2, p)

\* 93.428450 + 5.231912 + 0.339638 = 99 in decimal; none of the three is a double
RoundedRows == <<SumRow(<<DecP(93428450)>>), SumRow(<<DecP(5231912)>>), SumRow(<<DecP(339638)>>)>>

\* complete files of one or two such rows, and the file of the three rounded rows
SumFiles ==
    {TextFile(CraftLines(Range(required_headers), TRUE, rows)) :
        rows \in {<<SumRow(p)>> : p \in SumPercentages}
                  \cup {<<SumRow(p), SumRow(q)>> : p \in SumPercentages, q \in SumPercentages}
                  \cup {RoundedRows}}

\* gold-standard files: rows without the TAXPATH column, and one with it
MaxGoldLines == 2

GoldRow(taxid, rank, percentage) == << taxid, <<TextP(rank)>>, Names2, percentage >>

GoldRows ==
    {GoldRow(<<IntP(562)>>, r, Percent(50)) : r \in {"species", "subspecies", "domain", "no rank"}}
        \cup {GoldRow(<<IntP(561)>>, "genus", Percent(50)),
              GoldRow(<<IntP(562)>>, "species", Percent(100)),
              GoldRow(<<TextP("ABC")>>, "species", Percent(50)),
              GoldRow(<<IntP(562)>>, "species", <<TextP("ten")>>),
              GoldRow(<<IntP(562)>>, "species", <<EmptyP>>),
              Row(<<IntP(562)>>, Path562, Names2, Percent(50))}

GoldColumnHeaders ==
    {<<"TAXID", "RANK", "TAXPATHSN", "PERCENTAGE">>,
     <<"TAXID", "RANK", "TAXPATHSN">>,
     BioboxesColumns}

GoldFiles ==
    {TextFile((IF h = <<>> THEN <<>> ELSE <<AtAtLine(h)>>) \o [i \in 1..Len(rows) |-> PlainLine(rows[i])]) :
        h \in GoldColumnHeaders \cup {<<>>},
        rows \in UNION {[1..n -> GoldRows] : n \in 0..MaxGoldLines}}

\* one row of each rank the taxonomy database can answer, and of rank "unknown"
RankFiles ==
    {TextFile(<<AtAtLine(<<"TAXID", "RANK", "TAXPATHSN", "PERCENTAGE">>),
                PlainLine(GoldRow(<<IntP(562)>>, r, Percent(100)))>>) :
        r \in (DbAnswers \ {"RAISES"}) \cup {"unknown"}}

GoldEnvs == {DefaultEnv, [DefaultEnv EXCEPT !.HAS_ETE3 = FALSE]}

(***************************************************************************)
(* The state machine: the scripts, run one after the other.                *)
(***************************************************************************)
NotRun == 0 - 1

\* comparative_analysis.py before it is started
CaStart == [FULL_ANALYSIS |-> FALSE, pd_bound |-> FALSE, metrics |-> "None",
            pca_html |-> "absent", diff_taxa_tsv |-> "absent", comparison_html |-> "absent",
            steps |-> {}, exit |-> NotRun]

\* fix_gold_standard.py before it is started, and on a file
NoFixRun == [outcome |-> "not run", output |-> NoFile, exit |-> 0 - 1]

GsIdle == [input |-> NoFile, first |-> NoFixRun, second |-> NoFixRun]

GsStart(file) == [input |-> file, first |-> NoFixRun, second |-> NoFixRun]

\* validate_profiler_format.py before it is started, and on a profiler, a path and a file
NoVerdict == [is_valid |-> FALSE, issues |-> <<>>]

PvIdle == [profiler |-> "", path |-> ReportPath("", FALSE), file |-> Report(<<>>),
           show_spec |-> FALSE, validated |-> FALSE, verdict |-> NoVerdict, exit |-> 0 - 1]

PvStart(profiler, path, file) == [PvIdle EXCEPT !.profiler = profiler, !.path = path, !.file = file]

NoResult == [done |-> FALSE, is_valid |-> FALSE, errors |-> <<>>, stats |-> EmptyStats]

Returned(r) == [done |-> TRUE, is_valid |-> r.is_valid, errors |-> r.errors, stats |-> r.stats]

\* one run of the conversion pipeline, of the validator on a hand-made file, of
\* validate_taxpasta.py on a table, or of comparative_analysis.py
Init ==
    /\ \/ input \in Inputs /\ env \in Envs /\ outfile = NoFile /\ pc = "convert"
       \/ input \in SkewedInputs /\ env = DefaultEnv /\ outfile = NoFile /\ pc = "convert"
       \/ input \in Inputs /\ env = DefaultEnv /\ outfile = OldFile /\ pc = "convert"
       \/ input = NoInput /\ env = DefaultEnv /\ outfile \in CraftFiles /\ pc = "validate"
       \/ input = NoInput /\ env = DefaultEnv /\ outfile \in TrailedFiles /\ pc = "validate"
       \/ input = NoInput /\ env = DefaultEnv /\ outfile \in VersionFiles /\ pc = "validate"
       \/ input = NoInput /\ env = DefaultEnv /\ outfile \in ColumnFiles /\ pc = "validate"
       \/ input = NoInput /\ env = DefaultEnv /\ outfile \in SumFiles /\ pc = "validate"
       \/ input \in Inputs /\ env = DefaultEnv /\ outfile = NoFile /\ pc = "check_input"
       \/ input = NoInput /\ env = DefaultEnv /\ outfile = NoFile /\ pc = "ca_load"
       \/ input = NoInput /\ env \in GoldEnvs /\ outfile = NoFile /\ pc = "fix"
       \/ input = NoInput /\ env = DefaultEnv /\ outfile = NoFile /\ pc = "fix_ranks"
       \/ input = NoInput /\ env = DefaultEnv /\ outfile = NoFile /\ pc = "profile"
       \/ input = NoInput /\ env = DefaultEnv /\ outfile = NoFile /\ pc = "profile_long"
       \/ input = NoInput /\ env = DefaultEnv /\ outfile = NoFile /\ pc = "profile_absent"
       \/ input = NoInput /\ env = DefaultEnv /\ outfile = NoFile /\ pc = "profile_show"
    /\ gs \in IF pc = "fix" THEN {GsStart(f) : f \in GoldFiles}
              ELSE IF pc = "fix_ranks" THEN {GsStart(f) : f \in RankFiles}
              ELSE {GsIdle}
    /\ pv \in IF pc = "profile"
              THEN {PvStart(a, p, f) : a \in ProfilerArgs, p \in ReportPaths, f \in ShortReports}
              ELSE IF pc = "profile_long"
              THEN {PvStart(a, p, f) : a \in ProfilerArgs, p \in ReportPaths, f \in LongReports}
              ELSE IF pc = "profile_absent"
              THEN {PvStart(a, p, f) : a \in ProfilerArgs, p \in ReportPaths, f \in AbsentReports}
              ELSE IF pc = "profile_show"
              THEN {PvStart(a, ReportPath(".kreport", FALSE), f) :
                       a \in ProfilerArgs, f \in AbsentReports \cup {Report(<<>>)}}
              ELSE {PvIdle}
    /\ ca = CaStart
    /\ result = NoResult
    /\ tpResult = NoResult
    /\ strict = FALSE
    /\ logged = {}
    /\ results = <<>>
    /\ convExit = NotRun
    /\ valExit = NotRun
    /\ tpExit = NotRun

\* taxpasta_to_bioboxes.py main(): exit 1 on a missing input or a configuration
\* error, else write the output file
ConverterMain ==
    /\ pc = "convert"
    /\ IF ConfigError(input)
       THEN /\ convExit' = 1
            /\ logged' = {ConfigErrorMessage(input)}
            /\ pc' = "done"
            /\ UNCHANGED <<outfile, results>>
       ELSE /\ results' = Results(input.rows, env)
            /\ outfile' = TextFile(<<>>)        \* open(output_file, 'w')
            /\ logged' = ConversionWarnings(input.rows)
            /\ pc' = "write"
            /\ UNCHANGED convExit
    /\ UNCHANGED <<input, env, result, tpResult, strict, valExit, tpExit, ca, gs, pv>>

\* the lines the with block writes, one f.write each
LinesToWrite == WrittenFile(results).lines

\* one f.write of the with block
WriteLine ==
    /\ pc = "write"
    /\ Len(outfile.lines) < Len(LinesToWrite)
    /\ outfile' = TextFile(SubSeq(LinesToWrite, 1, Len(outfile.lines) + 1))
    /\ UNCHANGED <<input, env, result, tpResult, strict, convExit, valExit, tpExit, logged, results, ca, gs, pv, pc>>

\* an f.write raises (disk full, I/O error): the with block closes the file as it
\* is, main() logs "Conversion failed" and exits 1
WriteFails ==
    /\ pc = "write"
    /\ Len(outfile.lines) < Len(LinesToWrite)
    /\ convExit' = 1
    /\ logged' = logged \cup {"Conversion failed"}
    /\ pc' = "done"
    /\ UNCHANGED <<input, env, outfile, result, tpResult, strict, valExit, tpExit, results, ca, gs, pv>>

\* the with block ends, convert_taxpasta_to_bioboxes returns and main() logs success
ConverterCompletes ==
    /\ pc = "write"
    /\ Len(outfile.lines) = Len(LinesToWrite)
    /\ convExit' = 0
    /\ logged' = logged \cup {"Conversion completed successfully"}
    /\ pc' = "validate"
    /\ UNCHANGED <<input, env, outfile, result, tpResult, strict, valExit, tpExit, results, ca, gs, pv>>

\* validate_bioboxes.py main(), with or without --strict
ValidateBioboxesMain ==
    /\ pc = "validate"
    /\ \E s \in BOOLEAN, r \in ValidateBioboxesOutcomes(outfile) :
          /\ strict' = s
          /\ result' = Returned(r)
          /\ valExit' = ExitCode(r.is_valid, s)
    /\ pc' = "done"
    /\ UNCHANGED <<input, env, outfile, tpResult, convExit, tpExit, logged, results, ca, gs, pv>>

\* validate_taxpasta.py main(), with or without --strict
ValidateTaxpastaMain ==
    /\ pc = "check_input"
    /\ \E s \in BOOLEAN, r \in {validate_taxpasta(input)} :
          /\ strict' = s
          /\ tpResult' = Returned(r)
          /\ tpExit' = ExitCode(r.is_valid, s)
    /\ pc' = "done"
    /\ UNCHANGED <<input, env, outfile, result, convExit, valExit, logged, results, ca, gs, pv>>

(***************************************************************************)
(* comparative_analysis.py.  ca holds FULL_ANALYSIS, whether the name pd    *)
(* is bound, the parsed metrics, the three output files ("absent",         *)
(* "placeholder", "real", or "partial" for a file opened and not           *)
(* finished), the analysis steps that ran and the exit code.               *)
(***************************************************************************)
CaUnchanged == UNCHANGED <<input, env, outfile, result, tpResult, strict, convExit, valExit, tpExit,
                           logged, results, gs, pv>>

\* the imports of lines 22-35 and the def statements after them: pandas is the
\* first import, so pd is bound unless pandas itself is missing; the annotation
\* pd.DataFrame of perform_pca_analysis is evaluated when its def is executed
CaLoadModule ==
    /\ pc = "ca_load"
    /\ \E deps \in {"all", "pandas only", "none"} :
          IF deps = "none"
          THEN ca' = [ca EXCEPT !.FULL_ANALYSIS = FALSE, !.pd_bound = FALSE, !.exit = 1]
               /\ pc' = "ca_crashed"         \* NameError: name 'pd' is not defined
          ELSE ca' = [ca EXCEPT !.FULL_ANALYSIS = (deps = "all"), !.pd_bound = TRUE]
               /\ pc' = "ca_main"
    /\ CaUnchanged

\* main() up to the choice of the mode; the placeholder mode writes the three files
CaMain ==
    /\ pc = "ca_main"
    /\ IF ~ca.FULL_ANALYSIS
       THEN ca' = [ca EXCEPT !.pca_html = "placeholder", !.diff_taxa_tsv = "placeholder",
                             !.comparison_html = "placeholder", !.exit = 0]
            /\ pc' = "ca_end"
       ELSE pc' = "ca_metrics" /\ UNCHANGED ca
    /\ CaUnchanged

\* metrics_df = parse_opal_metrics(args.opal_dir): None, a table, or an exception
CaParseMetrics ==
    /\ pc = "ca_metrics"
    /\ \E m \in {"None", "table", "raises"} :
          /\ ca' = [ca EXCEPT !.metrics = m, !.steps = @ \cup {"metrics"}]
          /\ pc' = IF m = "raises" THEN "ca_except" ELSE "ca_pca"
    /\ CaUnchanged

\* perform_pca_analysis, which writes the plot or falls back to the placeholder
\* itself, or create_placeholder_pca when there are no metrics
CaPca ==
    /\ pc = "ca_pca"
    /\ IF ca.metrics = "table"
       THEN \E o \in {"real", "placeholder", "raises"} :
               IF o = "raises"
               THEN ca' = [ca EXCEPT !.steps = @ \cup {"pca"}] /\ pc' = "ca_except"
               ELSE ca' = [ca EXCEPT !.pca_html = o, !.steps = @ \cup {"pca"}] /\ pc' = "ca_diff"
       ELSE ca' = [ca EXCEPT !.pca_html = "placeholder"] /\ pc' = "ca_diff"
    /\ CaUnchanged

\* parse_bioboxes_profiles and perform_differential_abundance when the profiles
\* directory exists, else create_placeholder_diff_taxa
CaDiffAbundance ==
    /\ pc = "ca_diff"
    /\ \E dir_exists \in BOOLEAN, o \in {"real", "placeholder", "raises"} :
          IF ~dir_exists
          THEN ca' = [ca EXCEPT !.diff_taxa_tsv = "placeholder"] /\ pc' = "ca_report"
          ELSE IF o = "raises"
          THEN ca' = [ca EXCEPT !.steps = @ \cup {"diff"}] /\ pc' = "ca_except"
          ELSE ca' = [ca EXCEPT !.diff_taxa_tsv = o, !.steps = @ \cup {"diff"}] /\ pc' = "ca_report"
    /\ CaUnchanged

\* create_comparison_report: written, or an exception before or after the open
CaReport ==
    /\ pc = "ca_report"
    /\ \E o \in {"real", "raises", "partial"} :
          IF o = "real"
          THEN ca' = [ca EXCEPT !.comparison_html = "real", !.steps = @ \cup {"report"}, !.exit = 0]
               /\ pc' = "ca_end"
          ELSE ca' = [ca EXCEPT !.comparison_html = IF o = "partial" THEN "partial" ELSE @,
                                !.steps = @ \cup {"report"}]
               /\ pc' = "ca_except"
    /\ CaUnchanged

\* a placeholder for an output that does not exist
PlaceholderIfAbsent(f) == IF f = "absent" THEN "placeholder" ELSE f

\* the except Exception of main(): placeholders for the outputs that do not exist
CaExcept ==
    /\ pc = "ca_except"
    /\ ca' = [ca EXCEPT !.pca_html = PlaceholderIfAbsent(@),
                        !.diff_taxa_tsv = PlaceholderIfAbsent(@),
                        !.comparison_html = PlaceholderIfAbsent(@),
                        !.exit = 0]
    /\ pc' = "ca_end"
    /\ CaUnchanged

CaNext ==
    \/ CaLoadModule
    \/ CaMain
    \/ CaParseMetrics
    \/ CaPca
    \/ CaDiffAbundance
    \/ CaReport
    \/ CaExcept

\* fix_gold_standard.py main() on a gold-standard file
FixGoldStandardMain ==
    /\ pc \in {"fix", "fix_ranks"}
    /\ gs' = [gs EXCEPT !.first = fix_gold_standard(gs.input, env)]
    /\ pc' = IF gs'.first.output # NoFile THEN "fix_again" ELSE "done"
    /\ UNCHANGED <<input, env, outfile, result, tpResult, strict, convExit, valExit, tpExit, logged,
                   results, ca, pv>>

\* fix_gold_standard.py main() on the file the first run wrote
FixGoldStandardAgain ==
    /\ pc = "fix_again"
    /\ gs' = [gs EXCEPT !.second = fix_gold_standard(gs.first.output, env)]
    /\ pc' = "done"
    /\ UNCHANGED <<input, env, outfile, result, tpResult, strict, convExit, valExit, tpExit, logged,
                   results, ca, pv>>

\* validate_profiler_format.py main() with --show-spec: the file is not looked at
ShowSpecMain ==
    /\ pc = "profile_show"
    /\ pv' = [pv EXCEPT !.show_spec = TRUE,
                        !.exit = IF Lower(pv.profiler) \notin DOMAIN PROFILER_SPECS THEN 1 ELSE 0]
    /\ pc' = "done"
    /\ UNCHANGED <<input, env, outfile, result, tpResult, strict, convExit, valExit, tpExit, logged,
                   results, ca, gs>>

\* validate_profiler_format.py main(): exit 0 when the file is valid, else 1
ValidateProfilerMain ==
    /\ pc \in {"profile", "profile_long", "profile_absent"}
    /\ LET v == validate_file_format(Lower(pv.profiler), pv.path, pv.file)
       IN  pv' = [pv EXCEPT !.validated = TRUE, !.verdict = v, !.exit = IF v.is_valid THEN 0 ELSE 1]
    /\ pc' = "done"
    /\ UNCHANGED <<input, env, outfile, result, tpResult, strict, convExit, valExit, tpExit, logged,
                   results, ca, gs>>

Next ==
    \/ ConverterMain
    \/ WriteLine
    \/ WriteFails
    \/ ConverterCompletes
    \/ ValidateBioboxesMain
    \/ ValidateTaxpastaMain
    \/ CaNext
    \/ FixGoldStandardMain
    \/ FixGoldStandardAgain
    \/ ShowSpecMain
    \/ ValidateProfilerMain

Spec == Init /\ [][Next]_vars

(***************************************************************************)
(* What the converter wrote, read back line by line.                       *)
(***************************************************************************)
WrittenRows == SelectSeq(outfile.lines, LAMBDA l : l.t = "plain")

WrittenPercentage(i) == WrittenRows[i].fields[5][1].n

WrittenSum == SumSeq([i \in 1..Len(WrittenRows) |-> WrittenPercentage(i)])

WrittenTaxid(i) == WrittenRows[i].fields[1][1].n

WrittenRank(i) == WrittenRows[i].fields[2][1].w

\* a row of the input with an integer identifier and a positive numeric count
ValidInputRow(row) == row.taxonomy_id.k = "int" /\ row.count.k = "int" /\ row.count.n > 0

Tolerance == Scale \div 100     \* 0.01 in units of 1e-6

(***************************************************************************)
(* C1: whenever the converter emits data rows, the PERCENTAGE values it    *)
(* writes sum to 100.0 within 0.01, whatever rows were dropped before the  *)
(* renormalization.                                                        *)
(***************************************************************************)
C1_PercentagesSumTo100 ==
    (convExit = 0 /\ WrittenRows # <<>>) => Abs(WrittenSum - 100 * Scale) <= Tolerance

(***************************************************************************)
(* C2: a row with a valid identifier and count is emitted if and only if   *)
(* its resolved rank is one of the eight allowed ranks or one of the three *)
(* mapped ranks; every emitted RANK is an allowed rank, a mapped rank      *)
(* being written as its mapped value.                                      *)
(***************************************************************************)
AllowedRankNames == {"superkingdom", "phylum", "class", "order", "family", "genus", "species", "strain"}

MappedRankNames == {"subspecies", "domain", "kingdom"}

ResolvedRank(taxid) == get_taxonomy_info(taxid, env).rank

C2_RankFilter ==
    convExit = 0 =>
        /\ \A i \in 1..Len(input.rows) :
              ValidInputRow(input.rows[i]) =>
                  ((\E j \in 1..Len(WrittenRows) : WrittenTaxid(j) = input.rows[i].taxonomy_id.n)
                   <=> ResolvedRank(input.rows[i].taxonomy_id.n) \in AllowedRankNames \cup MappedRankNames)
        /\ Len(WrittenRows) =
              Cardinality({i \in 1..Len(input.rows) :
                  /\ ValidInputRow(input.rows[i])
                  /\ ResolvedRank(input.rows[i].taxonomy_id.n) \in AllowedRankNames \cup MappedRankNames})
        /\ \A j \in 1..Len(WrittenRows) :
              /\ WrittenRank(j) \in AllowedRankNames
              /\ ResolvedRank(WrittenTaxid(j)) = "subspecies" => WrittenRank(j) = "strain"
              /\ ResolvedRank(WrittenTaxid(j)) \in {"domain", "kingdom"} => WrittenRank(j) = "superkingdom"
              /\ ResolvedRank(WrittenTaxid(j)) \in AllowedRankNames => WrittenRank(j) = ResolvedRank(WrittenTaxid(j))

\* a run that wrote a row whose rank the mapping table rewrote
C2_Witness ==
    /\ convExit = 0
    /\ ResolvedRank(562) = "kingdom"
    /\ \E j \in 1..Len(WrittenRows) : WrittenTaxid(j) = 562 /\ WrittenRank(j) = "superkingdom"

(***************************************************************************)
(* The lines validate_bioboxes was given, as the claims speak of them.     *)
(***************************************************************************)
\* the data rows of the file: the non-blank lines after the column header
DataRows ==
    {n \in 1..Len(outfile.lines) :
        /\ outfile.lines[n].t = "plain"
        /\ \E h \in 1..(n - 1) : outfile.lines[h].t = "atat"}

FieldsOf(n) == outfile.lines[n].fields

HasDiagnostic(kind) == \E i \in 1..Len(result.errors) : result.errors[i].kind = kind

DiagnosticsOn(kind, n) ==
    {i \in 1..Len(result.errors) : result.errors[i].kind = kind /\ result.errors[i].line = n}

(***************************************************************************)
(* C3: validate_bioboxes flags every file with a data row whose TAXPATH's  *)
(* final pipe-delimited element is not equal to the row's TAXID: the       *)
(* diagnostic list is non-empty and is_valid is false.                     *)
(***************************************************************************)
LastOf(field) == field[Len(field)]

PathEndsElsewhere(n) ==
    /\ Len(FieldsOf(n)) >= 5
    /\ <<LastOf(FieldsOf(n)[3])>> # FieldsOf(n)[1]

C3_PathMismatchFlagged ==
    (result.done /\ \E n \in DataRows : PathEndsElsewhere(n))
        => (~result.is_valid /\ result.errors # <<>>)

(***************************************************************************)
(* C4: for every well-formed input table, validating the file the          *)
(* converter wrote returns is_valid = true and no diagnostics.             *)
(***************************************************************************)
WellFormedInput ==
    /\ input.status = "ok"
    /\ BothColumns \subseteq input.columns
    /\ Len(input.rows) >= 1
    /\ \A i \in 1..Len(input.rows) :
          /\ ValidInputRow(input.rows[i])
          /\ input.rows[i].taxonomy_id.n > 0
    /\ \A i, j \in 1..Len(input.rows) :
          i # j => input.rows[i].taxonomy_id # input.rows[j].taxonomy_id

C4_RoundTripValid ==
    (convExit = 0 /\ result.done /\ WellFormedInput)
        => (result.is_valid /\ result.errors = <<>>)

(***************************************************************************)
(* C5: when some TAXID occurs in more than one data row the validator adds *)
(* exactly one duplicate diagnostic, carrying the number of TAXID rows     *)
(* minus the number of distinct TAXIDs, and none when all are distinct.    *)
(***************************************************************************)
DuplicateDiagnostics ==
    {i \in 1..Len(result.errors) : result.errors[i].kind = "duplicate TAXID entries"}

CountedRows == {n \in DataRows : Len(FieldsOf(n)) >= 5 /\ IntParses(FieldsOf(n)[1])}

NumberRows ==
    {n \in DataRows : /\ Len(FieldsOf(n)) >= 5
                      /\ Len(FieldsOf(n)[5]) = 1
                      /\ FieldsOf(n)[5][1].k \in {"int", "dec"}}

PercentageValue(n) ==
    IF FieldsOf(n)[5][1].k = "int" THEN FieldsOf(n)[5][1].n * 1000000 ELSE FieldsOf(n)[5][1].n

C6_RangeInclusive ==
    result.done =>
        \A n \in NumberRows :
            /\ PercentageValue(n) \in {0, 100000000} => DiagnosticsOn("PERCENTAGE out of range", n) = {}
            /\ (PercentageValue(n) > 100000000 \/ PercentageValue(n) < 0)
                   => Cardinality(DiagnosticsOn("PERCENTAGE out of range", n)) = 1
            /\ (PercentageValue(n) >= 0 /\ PercentageValue(n) <= 100000000)
                   => DiagnosticsOn("PERCENTAGE out of range", n) = {}

\* a file with a row at exactly 100 that was accepted and a row at 100.0001 that was not
C6_Witness ==
    /\ result.done
    /\ \E n \in NumberRows :
          PercentageValue(n) = 100000000 /\ DiagnosticsOn("PERCENTAGE out of range", n) = {}
    /\ \E n \in NumberRows :
          PercentageValue(n) = 100000100 /\ DiagnosticsOn("PERCENTAGE out of range", n) # {}

(***************************************************************************)
(* C7: from the rows (562, 100) and ("ABC", 50) the converter writes one   *)
(* data row, TAXID 562 with PERCENTAGE 100.000000; in general a row with a *)
(* non-integer identifier is never written and does not reduce the share   *)
(* written for the other rows.                                             *)
(***************************************************************************)
ScenarioRows == <<[taxonomy_id |-> IntP(562), count |-> IntP(100)],
                  [taxonomy_id |-> TextP("ABC"), count |-> IntP(50)]>>

\* the same table without its rows of non-integer identifier
IntegerIdRows == SelectSeq(input.rows, LAMBDA r : r.taxonomy_id.k # "text")

C7_NonIntegerRowDropped ==
    convExit = 0 =>
        /\ (input.rows = ScenarioRows /\ ResolvedRank(562) \in AllowedRankNames \cup MappedRankNames)
              => /\ Len(WrittenRows) = 1
                 /\ WrittenRows[1].fields[1] = <<IntP(562)>>
                 /\ WrittenRows[1].fields[5] = <<DecP(100000000)>>
        /\ \A j \in 1..Len(WrittenRows) : WrittenRows[j].fields[1][1].k = "int"
        /\ LET without == Results(IntegerIdRows, env)
           IN  /\ Len(WrittenRows) = Len(without)
               /\ \A j \in 1..Len(WrittenRows) :
                     WrittenPercentage(j) >= without[j].PERCENTAGE - Tolerance

(***************************************************************************)
(* C8: a file without a header line @H:<value>, for H one of SampleID,     *)
(* Version, Ranks, is invalid and gets "Missing required header: @H",      *)
(* whatever else the file holds.                                           *)
(***************************************************************************)
HasHeaderLine(h) ==
    \E n \in 1..Len(outfile.lines) :
        /\ outfile.lines[n].t = "at"
        /\ outfile.lines[n].key = h
        /\ outfile.lines[n].val # <<>>

MissingHeaderDiagnostic(h) ==
    \E i \in 1..Len(result.errors) :
        result.errors[i].kind = "Missing required header" /\ result.errors[i].arg = h

\* as stated: every file that can be read
C8_MissingHeaderFlagged ==
    (result.done /\ outfile.exists /\ outfile.readable) =>
        \A h \in {"SampleID", "Version", "Ranks"} :
            ~HasHeaderLine(h) => (~result.is_valid /\ MissingHeaderDiagnostic(h))

\* amended: every file that can be read and has at least one line
C8_MissingHeaderFlaggedNonEmpty ==
    (result.done /\ outfile.exists /\ outfile.readable /\ outfile.lines # <<>>) =>
        \A h \in {"SampleID", "Version", "Ranks"} :
            ~HasHeaderLine(h) => (~result.is_valid /\ MissingHeaderDiagnostic(h))

\* a file with data rows, @SampleID and @Version but no @Ranks, flagged for it
C8_Witness ==
    /\ result.done
    /\ DataRows # {}
    /\ HasHeaderLine("SampleID") /\ HasHeaderLine("Version") /\ ~HasHeaderLine("Ranks")
    /\ MissingHeaderDiagnostic("Ranks")
    /\ ~result.is_valid

(***************************************************************************)
(* C9: on every return path of validate_bioboxes, is_valid is true if and  *)
(* only if the diagnostic list is empty.                                   *)
(***************************************************************************)
C9_ValidIffNoDiagnostics ==
    result.done => (result.is_valid <=> result.errors = <<>>)

\* the early return for an empty file
C9_Witness ==
    /\ result.done
    /\ ~result.is_valid
    /\ Len(result.errors) = 1
    /\ result.errors[1].kind = "File is empty"

(***************************************************************************)
(* C10: the validator command line exits with 1 when the input cannot be   *)
(* read or parsed (not found, unreadable, empty, no column header) or      *)
(* validation fails, and with 0 only on success.                           *)
(***************************************************************************)
UnreadableKinds == {"File not found", "Cannot read file", "File is empty", "Missing column header"}

CouldNotRead(r) == \E i \in 1..Len(r.errors) : r.errors[i].kind \in UnreadableKinds

C10_ExitOneOnFailure ==
    /\ (valExit # NotRun /\ CouldNotRead(result)) => valExit = 1
    /\ (tpExit # NotRun /\ CouldNotRead(tpResult)) => tpExit = 1
    /\ (valExit # NotRun /\ result.is_valid) => valExit = 0
    /\ (tpExit # NotRun /\ tpResult.is_valid) => tpExit = 0

(***************************************************************************)
(* C11: with --strict the exit code of either validator is 1 if and only   *)
(* if the validation function returned at least one diagnostic, and 0      *)
(* otherwise; the flag changes the exit code only: the diagnostics and     *)
(* statistics of a strict run are those the validation function computes   *)
(* from the file alone.                                                    *)
(***************************************************************************)
C11_StrictExitIffDiagnostics ==
    /\ (valExit # NotRun /\ strict) =>
          /\ valExit = (IF result.errors # <<>> THEN 1 ELSE 0)
          /\ \E r \in ValidateBioboxesOutcomes(outfile) : result = Returned(r)
    /\ (tpExit # NotRun /\ strict) =>
          /\ tpExit = (IF tpResult.errors # <<>> THEN 1 ELSE 0)
          /\ tpResult = Returned(validate_taxpasta(input))

\* a strict run of validate_bioboxes.py on a file with diagnostics
C11_Witness ==
    /\ strict
    /\ valExit = 1
    /\ result.done
    /\ result.errors # <<>>
    /\ result.stats.keys # {}

(***************************************************************************)
(* C12: get_taxonomy_info never raises: for every identifier the converter *)
(* hands it, it returns a triple; when the database is unavailable or a    *)
(* step of the lookup throws, the triple is rank "unknown", TAXPATH the    *)
(* identifier alone and TAXPATHSN "taxid_" + identifier; and TAXPATH and   *)
(* TAXPATHSN of every returned triple have the same number of elements.    *)
(***************************************************************************)
\* the identifiers of the rows that reach the lookup
LookedUpTaxids ==
    {CleanRows(input.rows)[i].taxonomy_id.n :
        i \in {j \in 1..Len(CleanRows(input.rows)) : CleanRows(input.rows)[j].taxonomy_id.k = "int"}}

LookupFails(taxid) == ~env.HAS_ETE3 \/ ~NcbiAvailable(env) \/ LookupRaises(taxid, env)

C12_LookupDegradesNeverRaises ==
    convExit = 0 =>
        \A t \in LookedUpTaxids :
            LET info == get_taxonomy_info(t, env)
            IN  /\ DOMAIN info = {"rank", "taxpath", "taxpathsn"}
                /\ LookupFails(t) =>
                      /\ info.rank = "unknown"
                      /\ info.taxpath = <<IntP(t)>>
                      /\ info.taxpathsn = <<[k |-> "text", n |-> t, w |-> "taxid_"]>>
                /\ Len(info.taxpath) = Len(info.taxpathsn)

\* a conversion during which get_lineage throws for a looked-up identifier
C12_Witness ==
    /\ convExit = 0
    /\ NcbiAvailable(env)
    /\ env.lineage = "raises"
    /\ 562 \in LookedUpTaxids

(***************************************************************************)
(* C13: a configuration error of the converter (input file absent or       *)
(* unreadable, or the taxonomy_id or count column missing) is fatal: the   *)
(* run ends with a non-zero exit code and never reports successful         *)
(* completion.                                                             *)
(***************************************************************************)
ConfigurationErrorInput ==
    \/ input.status \in {"missing", "unreadable", "empty"}
    \/ ~({"taxonomy_id", "count"} \subseteq input.columns)

ConverterEnded == convExit # NotRun

C13_ConfigErrorFatal ==
    /\ (ConverterEnded /\ ConfigurationErrorInput) => convExit # 0
    /\ ConfigurationErrorInput => "Conversion completed successfully" \notin logged

\* a run on a table without the count column
C13_Witness ==
    /\ ConverterEnded
    /\ input.status = "ok"
    /\ "count" \notin input.columns
    /\ convExit = 1
    /\ logged = {"Input file must contain 'taxonomy_id' and 'count' columns"}

(***************************************************************************)
(* C14: no row-level defect aborts a conversion: for an input with the     *)
(* required columns and at least one fully valid row, the rows with a      *)
(* missing or non-integer identifier, a missing, non-numeric or            *)
(* non-positive count, or an unsupported rank are dropped one by one, the  *)
(* fully valid rows are all emitted, in their order, and the run ends with *)
(* exit code 0 unless a write to the output file fails.                    *)
(***************************************************************************)
FullyValidRows ==
    SelectSeq(input.rows,
              LAMBDA r : /\ ValidInputRow(r)
                         /\ ResolvedRank(r.taxonomy_id.n) \in AllowedRankNames \cup MappedRankNames)

DefectiveRows ==
    SelectSeq(input.rows,
              LAMBDA r : \/ ~ValidInputRow(r)
                         \/ ResolvedRank(r.taxonomy_id.n) \notin AllowedRankNames \cup MappedRankNames)

\* an f.write failed: the output file lacks lines of the document
WriteFailed == Len(outfile.lines) < Len(LinesToWrite)

C14_RowDefectsNeverAbort ==
    ((pc = "write" \/ ConverterEnded) /\ ~ConfigurationErrorInput /\ FullyValidRows # <<>>) =>
        /\ [i \in 1..Len(results) |-> results[i].TAXID]
              = [i \in 1..Len(FullyValidRows) |-> FullyValidRows[i].taxonomy_id.n]
        /\ ConverterEnded => (convExit = 0 \/ WriteFailed)
        /\ convExit = 0 => Len(WrittenRows) = Len(FullyValidRows)

\* a finished run that dropped a defective first row and emitted the valid row after it
C14_Witness ==
    /\ convExit = 0
    /\ Len(input.rows) >= 2
    /\ ~ValidInputRow(input.rows[1])
    /\ DefectiveRows # <<>>
    /\ FullyValidRows # <<>>
    /\ Len(WrittenRows) = Len(FullyValidRows)

(***************************************************************************)
(* C15: when no row remains after the converter dropped the rows with a    *)
(* missing identifier or a missing or non-positive count, the conversion   *)
(* is a hard error: the run does not end as a successful one.              *)
(***************************************************************************)
NoRowRemains == ~ConfigurationErrorInput /\ \A i \in 1..Len(input.rows) : ~CountKept(input.rows[i])

C15_ZeroRowsIsHardError ==
    (ConverterEnded /\ NoRowRemains) =>
        /\ convExit # 0
        /\ "Conversion completed successfully" \notin logged

(***************************************************************************)
(* C16: the output file is written atomically: at every point of a run,    *)
(* a run that fails part-way through writing included, the output path     *)
(* holds no new content or the complete document (four header lines, the   *)
(* column-header line and every emitted row), never a prefix of it.        *)
(***************************************************************************)
C16_OutputWrittenAtomically ==
    (pc = "write" \/ ConverterEnded) =>
        \/ outfile = NoFile
        \/ outfile = OldFile
        \/ outfile = TextFile(<<>>)
        \/ outfile = WrittenFile(results)

(***************************************************************************)
(* C17: when the taxonomy database is absent (ete3 not importable,         *)
(* --no-ete3 given, or NCBITaxa() failing), the converter still writes     *)
(* degraded output for the valid input rows: each such row is in the       *)
(* output file with its identifier as its own TAXPATH.                     *)
(***************************************************************************)
DatabaseAbsent == ~env.HAS_ETE3 \/ ~env.use_ete3 \/ ~env.init_ok

C17_DegradedOutputWithoutDatabase ==
    (convExit = 0 /\ DatabaseAbsent) =>
        \A i \in 1..Len(input.rows) :
            ValidInputRow(input.rows[i]) =>
                \E j \in 1..Len(WrittenRows) :
                    /\ WrittenTaxid(j) = input.rows[i].taxonomy_id.n
                    /\ WrittenRows[j].fields[3] = <<IntP(input.rows[i].taxonomy_id.n)>>

(***************************************************************************)
(* C18: comparative_analysis.py always reaches the end of main() with its  *)
(* three outputs present: without the optional dependencies it writes      *)
(* placeholders only and runs no analysis step, and in full mode a failure *)
(* of metrics parsing, PCA, differential abundance or report generation is *)
(* answered by a placeholder for each output that does not exist yet,      *)
(* never by an abort.                                                      *)
(***************************************************************************)
CaPositions == {"ca_load", "ca_main", "ca_metrics", "ca_pca", "ca_diff", "ca_report",
                "ca_except", "ca_end", "ca_crashed"}

AllOutputsPresent ==
    /\ ca.pca_html # "absent"
    /\ ca.diff_taxa_tsv # "absent"
    /\ ca.comparison_html # "absent"

C18_AnalysisAlwaysEndsWithOutputs ==
    pc \in CaPositions =>
        /\ pc = "ca_end" \/ ENABLED CaNext
        /\ pc = "ca_end" => AllOutputsPresent /\ ca.exit = 0
        /\ (pc = "ca_end" /\ ~ca.FULL_ANALYSIS) =>
              /\ ca.steps = {}
              /\ ca.pca_html = "placeholder"
              /\ ca.diff_taxa_tsv = "placeholder"
              /\ ca.comparison_html = "placeholder"

(***************************************************************************)
(* C19: validate_bioboxes flags every data row whose TAXPATHSN has a       *)
(* different number of pipe-delimited elements than its TAXPATH: a file    *)
(* with such a row gets a diagnostic and is_valid = false.                 *)
(***************************************************************************)
NamesAndPathDiffer(n) ==
    /\ Len(FieldsOf(n)) >= 5
    /\ Len(FieldsOf(n)[4]) # Len(FieldsOf(n)[3])

C19_NameCountMismatchFlagged ==
    (result.done /\ \E n \in DataRows : NamesAndPathDiffer(n))
        => (~result.is_valid /\ result.errors # <<>>)

(***************************************************************************)
(* C20: validate_bioboxes parses exactly one column-header line, and every *)
(* non-blank line after it is a data row that gets the row-level checks:   *)
(* it is counted among the data rows, and when it starts with '@', having  *)
(* fewer than five tab-separated fields, it is reported as a row with      *)
(* insufficient columns; none is ignored or read as a header.              *)
(***************************************************************************)
LinesAfterColumnHeader ==
    {n \in 1..Len(outfile.lines) :
        /\ outfile.lines[n].t # "blank"
        /\ \E h \in 1..(n - 1) : outfile.lines[h].t = "atat"}

C20_LinesAfterColumnHeaderAreRows ==
    (result.done /\ "data_rows" \in result.stats.keys) =>
        /\ result.stats.data_rows = Cardinality(LinesAfterColumnHeader)
        /\ \A n \in LinesAfterColumnHeader :
              outfile.lines[n].t = "at" => DiagnosticsOn("Insufficient columns", n) # {}

(***************************************************************************)
(* C21: in validate_bioboxes no failed check suppresses another.  For a    *)
(* readable, non-empty file with a column-header line every header-level   *)
(* and column-level diagnostic is returned, and every data row of five     *)
(* fields gets the diagnostic of each row-level check it fails, whatever   *)
(* other checks it failed; without a column-header line the header-level   *)
(* diagnostics are returned, then "Missing column header", and there is no *)
(* row-level diagnostic.                                                   *)
(***************************************************************************)
\* the diagnostics that name a line of the data section
RowLevelKinds == {"Insufficient columns", "Invalid TAXID", "TAXID not an integer",
                  "RANK not in header Ranks", "TAXPATH contains non-integer",
                  "Last TAXPATH element doesn't match TAXID",
                  "TAXPATHSN doesn't match TAXPATH", "PERCENTAGE out of range",
                  "PERCENTAGE not a number"}

IsPrefixOf(s, t) == Len(s) <= Len(t) /\ SubSeq(t, 1, Len(s)) = s

\* the data rows the field checks are made on
FiveFieldRows == {n \in DataRows : Len(FieldsOf(n)) >= 5}

\* what each row-level check is about, told from the row alone
TaxidNotPositiveInteger(n) == ~(IntParses(FieldsOf(n)[1]) /\ IntOf(FieldsOf(n)[1]) > 0)

PathHasNonInteger(n) ==
    NonEmptyField(FieldsOf(n)[3]) /\ \E i \in 1..Len(FieldsOf(n)[3]) : FieldsOf(n)[3][i].k # "int"

PathEndIsNotTaxid(n) ==
    NonEmptyField(FieldsOf(n)[3]) /\ <<LastOf(FieldsOf(n)[3])>> # FieldsOf(n)[1]

PercentageNotInRange(n) ==
    \/ ~FloatParses(FieldsOf(n)[5])
    \/ ~FloatIsNan(FieldsOf(n)[5]) /\ PercentageOutOfRange(FloatOf(FieldsOf(n)[5]))

C21_NoCheckSuppressesAnother ==
    (result.done /\ outfile.exists /\ outfile.readable /\ outfile.lines # <<>>) =>
        IF AtAtLines(outfile.lines) = {}
        THEN /\ result.errors
                   = HeaderLevelErrors(outfile.lines) \o <<Err("Missing column header", 0, "", 0)>>
             /\ \A i \in 1..Len(result.errors) : result.errors[i].kind \notin RowLevelKinds
        ELSE /\ IsPrefixOf(HeaderLevelErrors(outfile.lines) \o ColumnErrors(outfile.lines),
                           result.errors)
             /\ \A n \in FiveFieldRows :
                   /\ TaxidNotPositiveInteger(n) =>
                         DiagnosticsOn("Invalid TAXID", n) \cup DiagnosticsOn("TAXID not an integer", n) # {}
                   /\ PathHasNonInteger(n) => DiagnosticsOn("TAXPATH contains non-integer", n) # {}
                   /\ PathEndIsNotTaxid(n) =>
                         DiagnosticsOn("Last TAXPATH element doesn't match TAXID", n) # {}
                   /\ PercentageNotInRange(n) =>
                         DiagnosticsOn("PERCENTAGE out of range", n)
                             \cup DiagnosticsOn("PERCENTAGE not a number", n) # {}

(***************************************************************************)
(* C22: validate_bioboxes gives a "Version format invalid" diagnostic for  *)
(* every @Version value that is not of the form digits.digits.digits, and  *)
(* none for a value of that form.                                          *)
(***************************************************************************)
\* the value validate_bioboxes keeps for @Version: that of the last such line
VersionLines ==
    {n \in 1..Len(outfile.lines) :
        /\ outfile.lines[n].t = "at"
        /\ outfile.lines[n].key = "Version"
        /\ outfile.lines[n].val # <<>>}

VersionValue == outfile.lines[CHOOSE n \in VersionLines : \A m \in VersionLines : m <= n].val

DigitsDotDigitsDotDigits(v) == v = <<"d", ".", "d", ".", "d">>

C22_VersionFormatChecked ==
    (result.done /\ outfile.exists /\ outfile.readable /\ VersionLines # {}) =>
        (HasDiagnostic("Version format invalid") <=> ~DigitsDotDigitsDotDigits(VersionValue))

(***************************************************************************)
(* C23: validate_bioboxes adds the percentage-sum diagnostic exactly when  *)
(* the sum of the PERCENTAGE values that parsed as numbers differs from    *)
(* 100 by more than 1.0: a sum of exactly 99 or 101 is not flagged.  The   *)
(* sum runs over every row whose PERCENTAGE parsed, the rows flagged as    *)
(* out of range included.  Stated for files in which at least one          *)
(* PERCENTAGE parsed and none is "nan".                                    *)
(***************************************************************************)
NanRows == {n \in DataRows : Len(FieldsOf(n)) >= 5 /\ FieldsOf(n)[5] = <<NanP>>}

\* the sum of the parsed percentages, in units of 1e-6
ParsedSum ==
    LET rows == SelectSeq([i \in 1..Len(outfile.lines) |-> i], LAMBDA i : i \in NumberRows)
    IN  SumSeq([i \in 1..Len(rows) |-> PercentageValue(rows[i])])

C23_SumFlaggedBeyondTolerance ==
    (result.done /\ NumberRows # {} /\ NanRows = {}) =>
        (HasDiagnostic("Percentages sum") <=> Abs(ParsedSum - 100000000) > 1000000)

(***************************************************************************)
(* C24: the converter and fix_gold_standard disagree on rows of rank       *)
(* "domain" or "kingdom": the converter keeps such a row and writes RANK   *)
(* "superkingdom", fix_gold_standard drops it.  For every other rank       *)
(* ("subspecies", written as "strain", included) the two scripts make the  *)
(* same keep/drop decision and write the same RANK.                        *)
(***************************************************************************)
DisagreedRanks == {"domain", "kingdom"}

\* the RANK fields of the data lines fix_gold_standard read, and of the rows it wrote
GoldInputRanks ==
    LET data == SelectSeq(gs.input.lines, LAMBDA l : l.t = "plain")
    IN  [i \in 1..Len(data) |-> RankText(data[i].fields[2])]

FirstFixedRows == SelectSeq(gs.first.output.lines, LAMBDA l : l.t = "plain")

FirstFixedRanks == [i \in 1..Len(FirstFixedRows) |-> RankText(FirstFixedRows[i].fields[2])]

\* what the converter wrote, against what fix_gold_standard does with the rank
ConverterAgainstFixer ==
    \A i \in 1..Len(input.rows) :
        ValidInputRow(input.rows[i]) =>
            LET t == input.rows[i].taxonomy_id.n
                r == ResolvedRank(t)
                written == {j \in 1..Len(WrittenRows) : WrittenTaxid(j) = t}
            IN  IF r \in DisagreedRanks
                THEN /\ written # {}
                     /\ \A j \in written : WrittenRank(j) = "superkingdom"
                     /\ FixRankSkipped(r)
                ELSE /\ written # {} <=> ~FixRankSkipped(r)
                     /\ \A j \in written : WrittenRank(j) = FixMappedRank(r)

\* what fix_gold_standard wrote, against what the converter does with the rank
FixerAgainstConverter ==
    LET agreed == SelectSeq(GoldInputRanks, LAMBDA r : ~RankSkipped(r) /\ r \notin DisagreedRanks)
    IN  /\ FirstFixedRanks = [i \in 1..Len(agreed) |-> MappedRank(agreed[i])]
        /\ \A i \in 1..Len(GoldInputRanks) :
               GoldInputRanks[i] \in DisagreedRanks =>
                   ~RankSkipped(GoldInputRanks[i]) /\ MappedRank(GoldInputRanks[i]) = "superkingdom"

C24_RankTablesDifferOnDomainKingdom ==
    /\ convExit = 0 => ConverterAgainstFixer
    /\ gs.first.outcome = "Successfully fixed" => FixerAgainstConverter

\* a run of fix_gold_standard that dropped a "domain" row and wrote a "subspecies"
\* row as "strain"
C24_Witness ==
    /\ gs.first.outcome = "Successfully fixed"
    /\ GoldInputRanks = <<"domain", "subspecies">>
    /\ FirstFixedRanks = <<"strain">>

(***************************************************************************)
(* C25: the converter's renormalisation preserves relative abundance: for  *)
(* any two written rows the ratio of the written PERCENTAGE values equals  *)
(* the ratio of the rows' input counts, up to the rounding of each written *)
(* value to six decimals, however small the written rows' share of the     *)
(* total input count is.                                                   *)
(***************************************************************************)
\* the input rows behind the written rows, in order
EmittedRows == SelectSeq(CleanRows(input.rows),
                         LAMBDA r : ProcessRow(r, TotalCounts(input.rows), env) # <<>>)

\* a * b as <<h, m, l>> with a * b = h * 10^8 + m * 10^4 + l, within 32 bits
Product(a, b) == << (a \div 10000) * (b \div 10000),
                   (a \div 10000) * (b % 10000) + (a % 10000) * (b \div 10000),
                   (a % 10000) * (b % 10000) >>

\* |a * b - c * d| <= t, for t below 5 * 10^8 + 2
DifferenceWithin(a, b, c, d, t) ==
    LET x == Product(a, b)
        y == Product(c, d)
        dh == x[1] - y[1]
        e == dh * 10000 + (x[2] - y[2])
    IN  /\ Abs(dh) < 40000
        /\ Abs(e) < 100000
        /\ Abs(e * 10000 + (x[3] - y[3])) <= t

\* one unit of the sixth decimal on either value
C25_RatioPreserved ==
    convExit = 0 =>
        \A i, j \in 1..Len(WrittenRows) :
            DifferenceWithin(WrittenPercentage(i), EmittedRows[j].count.n,
                             WrittenPercentage(j), EmittedRows[i].count.n,
                             EmittedRows[i].count.n + EmittedRows[j].count.n)

(***************************************************************************)
(* C26: when the converter aborts on a configuration error (unreadable     *)
(* input, or a missing taxonomy_id or count column) the output path is     *)
(* left as it was: no file is created there, and a file that was there is  *)
(* neither truncated nor modified.                                         *)
(***************************************************************************)
C26_ConfigErrorLeavesOutput ==
    [][(pc = "convert" /\ ConfigurationErrorInput) => outfile' = outfile]_vars

C26_Witness ==
    /\ ConverterEnded
    /\ ConfigurationErrorInput
    /\ convExit = 1
    /\ outfile = OldFile

(***************************************************************************)
(* C27: the converter writes at most one data row per input row, in input  *)
(* order, and neither merges nor removes duplicates: the TAXID column of   *)
(* the output is the identifier column of the retained input rows, row by  *)
(* row, so an identifier of k retained rows is on k written rows.          *)
(***************************************************************************)
\* the input rows that pass the cleaning, the identifier check and the rank filter
RetainedRows ==
    SelectSeq(input.rows,
              LAMBDA r : ValidInputRow(r)
                            /\ ResolvedRank(r.taxonomy_id.n) \in AllowedRankNames \cup MappedRankNames)

RowsWithTaxid(rows, t) == Cardinality({i \in 1..Len(rows) : rows[i].taxonomy_id.n = t})

WrittenWithTaxid(t) == Cardinality({i \in 1..Len(WrittenRows) : WrittenTaxid(i) = t})

C27_OneRowPerRetainedRow ==
    convExit = 0 =>
        /\ Len(WrittenRows) <= Len(input.rows)
        /\ Len(WrittenRows) = Len(RetainedRows)
        /\ \A i \in 1..Len(WrittenRows) : WrittenTaxid(i) = RetainedRows[i].taxonomy_id.n
        /\ \A t \in TaxIds : WrittenWithTaxid(t) = RowsWithTaxid(RetainedRows, t)

C27_Witness ==
    /\ convExit = 0
    /\ Len(input.rows) = 2
    /\ RowsWithTaxid(RetainedRows, 562) = 2
    /\ WrittenWithTaxid(562) = 2

(***************************************************************************)
(* C28: validate_bioboxes reads the data rows by position, whatever the    *)
(* column-header line says: the first and the fifth field of every row are *)
(* checked as TAXID and PERCENTAGE; the column-header check only asks that *)
(* the five names are present, in any order; a row of fewer than five      *)
(* fields gets one "Insufficient columns" diagnostic, no other, and is not *)
(* part of the duplicate count or of the percentage sum; fields beyond the *)
(* fifth are ignored without a diagnostic.                                 *)
(***************************************************************************)
\* the names on the last column-header line
HeaderNames ==
    outfile.lines[CHOOSE n \in 1..Len(outfile.lines) :
                     /\ outfile.lines[n].t = "atat"
                     /\ \A m \in (n + 1)..Len(outfile.lines) : outfile.lines[m].t # "atat"].val

FiveNames == {"TAXID", "RANK", "TAXPATH", "TAXPATHSN", "PERCENTAGE"}

ShortRows == DataRows \ FiveFieldRows

LongRows == {n \in DataRows : Len(FieldsOf(n)) > 5}

\* the diagnostics that carry the number of line n
DiagnosticsOfLine(n) == {i \in 1..Len(result.errors) : result.errors[i].line = n}

\* a row without a defect in its first five fields
CleanFirstFive(n) == SubSeq(FieldsOf(n), 1, 5) = Row(<<IntP(562)>>, Path562, Names2, Percent(50))

EveryIssueHasWarning == \A i \in 1..Len(pv.verdict.issues) : pv.verdict.issues[i].warning

C29_ValidIffOnlyWarnings ==
    pv.validated => (pv.verdict.is_valid <=> EveryIssueHasWarning)

\* the run as its arguments and the file describe it
KnownProfiler == Lower(pv.profiler) \in DOMAIN PROFILER_SPECS

SpecOfRun == PROFILER_SPECS[Lower(pv.profiler)]

FileMissing == pv.file.status = "missing"

FileUnreadable == pv.file.status \in {"directory", "undecodable"}

ExtensionMismatch == pv.path.suffix \notin SpecOfRun.extensions

\* the lines that are neither blank nor, for a profiler with a header marker, headers
DataLinesOfRun ==
    SelectSeq(pv.file.lines, LAMBDA l : l.t # "blank" /\ ~(SpecOfRun.header_marker /\ l.hash))

EmptyOrHeaderOnly == pv.file.status = "ok" /\ DataLinesOfRun = <<>>

OutOfBounds(l) ==
    \/ l.cols < SpecOfRun.min_columns
    \/ SpecOfRun.max_columns # NoMax /\ l.cols > SpecOfRun.max_columns

DefectInFirstTen == \E i \in 1..Len(DataLinesOfRun) : i <= 10 /\ OutOfBounds(DataLinesOfRun[i])

DefectAfterTenth == \E i \in 1..Len(DataLinesOfRun) : i > 10 /\ OutOfBounds(DataLinesOfRun[i])

InconsistentCounts ==
    \E i, j \in 1..Len(DataLinesOfRun) :
        i <= 10 /\ j <= 10 /\ DataLinesOfRun[i].cols # DataLinesOfRun[j].cols

\* the run reaches the final decision: no early return
ReachesDecision == KnownProfiler /\ ~FileMissing /\ ~FileUnreadable /\ ~EmptyOrHeaderOnly

\* amended: the early returns are invalid whatever their messages contain
C29_ValidIffDecidedAndOnlyWarnings ==
    pv.validated =>
        /\ pv.verdict.is_valid <=> (ReachesDecision /\ EveryIssueHasWarning)
        /\ pv.verdict.is_valid <=>
              (ReachesDecision /\ ~ExtensionMismatch /\ ~DefectInFirstTen)
        /\ pv.exit = IF pv.verdict.is_valid THEN 0 ELSE 1

\* valid with a warning, and valid with a defect after the tenth data line
C29_Witness ==
    /\ pv.validated
    /\ pv.verdict.is_valid
    /\ \/ InconsistentCounts /\ pv.verdict.issues # <<>>
       \/ DefectAfterTenth /\ ~InconsistentCounts /\ pv.verdict.issues = <<>>

(***************************************************************************)
(* C30: fix_gold_standard is idempotent on its own output: run on a file   *)
(* it wrote that has at least one data row, it reports that no fix is      *)
(* needed and writes no output file; it also writes nothing when the input *)
(* has no "@@" column-header line.                                         *)
(***************************************************************************)
FirstRan == gs.first.outcome # "not run"

SecondRan == gs.second.outcome # "not run"

\* the input can be read and none of its lines starts with "@@"
InputWithoutColumnHeader ==
    /\ gs.input.exists
    /\ gs.input.readable
    /\ \A i \in 1..Len(gs.input.lines) : gs.input.lines[i].t # "atat"

C30_FixerIdempotent ==
    /\ (SecondRan /\ Len(FirstFixedRows) >= 1) =>
          /\ gs.second.outcome = "no fix needed"
          /\ gs.second.output = NoFile
          /\ gs.second.exit = 0
    /\ (FirstRan /\ InputWithoutColumnHeader) =>
          /\ gs.first.outcome = "No column header found"
          /\ gs.first.output = NoFile
          /\ pc = "done"

\* a first run that wrote two rows, and a second run on its output
C30_Witness ==
    /\ gs.first.outcome = "Successfully fixed"
    /\ Len(FirstFixedRows) = 2
    /\ gs.second.outcome = "no fix needed"
    /\ gs.second.output = NoFile

====
